---------------------------- MODULE Spec2Model ----------------------------
(***************************************************************************)
(* Model of the forecasting pipeline of Pharma-Assistant-AI:               *)
(*   forecasting/model_selector.py   category classifier, model selection  *)
(*   models/*.py                     the four model adapters               *)
(*   routes/forecast_routes.py       run_forecast, the orchestrator        *)
(*                                                                         *)
(* Raw category strings are sequences of character codes (ASCII), so that  *)
(* lower() and strip() are computed, not assumed.  Model names and logical *)
(* type names belong to closed sets and are TLA+ strings.  Quantities      *)
(* (units sold, predictions) are integers counting thousandths.            *)
(***************************************************************************)
EXTENDS Integers, Sequences, FiniteSets, TLC

(***************************************************************************)
(* Bounds of the model.                                                    *)
(***************************************************************************)
\* longest run of whitespace put before / after a raw category string
MaxPad == 1

(***************************************************************************)
(* Python values.                                                          *)
(***************************************************************************)
\* None, where a string is expected (no character has code -1)
None == << -1 >>

\* truthiness of an Optional[str]: None and "" are falsy
IsFalsy(s) == s = None \/ s = << >>

\* a call that returned v
Ok(v) == [ok |-> TRUE, val |-> v, exc |-> "", msg |-> ""]

\* a call that raised exception class e with str(e) = m; d fills the value slot
Raise(e, m, d) == [ok |-> FALSE, val |-> d, exc |-> e, msg |-> m]

\* dict.get(k, default)
DictGet(d, k, default) == IF k \in DOMAIN d THEN d[k] ELSE default

(***************************************************************************)
(* str.lower() and str.strip() on ASCII strings.                           *)
(***************************************************************************)
\* the characters str.strip() removes (ASCII whitespace)
Whitespace == {9, 10, 11, 12, 13, 28, 29, 30, 31, 32}

LowerChar(c) == IF c >= 65 /\ c <= 90 THEN c + 32 ELSE c

UpperChar(c) == IF c >= 97 /\ c <= 122 THEN c - 32 ELSE c

Lower(s) == [i \in 1..Len(s) |-> LowerChar(s[i])]

RECURSIVE LStrip(_)
LStrip(s) == IF s # << >> /\ Head(s) \in Whitespace THEN LStrip(Tail(s)) ELSE s

RECURSIVE RStrip(_)
RStrip(s) ==
    IF s # << >> /\ s[Len(s)] \in Whitespace
    THEN RStrip(SubSeq(s, 1, Len(s) - 1))
    ELSE s

\* lstrip() in place of strip()
Strip_LeftOnly(s) == LStrip(s)

Strip(s) == RStrip(LStrip(s))

(***************************************************************************)
(* forecasting/model_selector.py                                           *)
(***************************************************************************)
K_cefixime == <<99, 101, 102, 105, 120, 105, 109, 101>>
K_omeprazole == <<111, 109, 101, 112, 114, 97, 122, 111, 108, 101>>
K_diclofenac_sodium ==
    <<100, 105, 99, 108, 111, 102, 101, 110, 97, 99, 32, 115, 111, 100, 105, 117, 109>>
K_escitalopram == <<101, 115, 99, 105, 116, 97, 108, 111, 112, 114, 97, 109>>
K_empagliflozin == <<101, 109, 112, 97, 103, 108, 105, 102, 108, 111, 122, 105, 110>>
K_dapagliflozin == <<100, 97, 112, 97, 103, 108, 105, 102, 108, 111, 122, 105, 110>>
K_sitagliptin == <<115, 105, 116, 97, 103, 108, 105, 112, 116, 105, 110>>

CATEGORY_TYPE_MAP ==
    (K_cefixime :> "antibiotic") @@ (K_omeprazole :> "gastro")
    @@ (K_diclofenac_sodium :> "acute") @@ (K_escitalopram :> "chronic")
    @@ (K_empagliflozin :> "chronic") @@ (K_dapagliflozin :> "chronic")
    @@ (K_sitagliptin :> "chronic")

\* chronic sent to sarimax (the model's own docstring recommends it there)
TYPE_MODEL_MAP_ChronicSarimax ==
    [antibiotic |-> "sarimax", gastro |-> "prophet", acute |-> "xgboost",
     chronic |-> "sarimax", other |-> "xgboost"]

TYPE_MODEL_MAP ==
    [antibiotic |-> "sarimax", gastro |-> "prophet", acute |-> "xgboost",
     chronic |-> "prophet", other |-> "xgboost"]

TYPE_FALLBACK_MAP ==
    [antibiotic |-> <<"prophet", "xgboost">>, gastro |-> <<"hybrid", "xgboost">>,
     acute |-> <<"hybrid", "prophet">>, chronic |-> <<"sarimax", "xgboost">>,
     other |-> <<"prophet", "sarimax">>]

\* the closed set select_model validates an override against
ValidModels == {"prophet", "xgboost", "sarimax", "hybrid"}

get_category_type(category) ==
    IF IsFalsy(category)
    THEN "other"
    ELSE LET cat_clean == Strip(Lower(category))
         IN  DictGet(CATEGORY_TYPE_MAP, cat_clean, "other")

\* the override ignored
select_model_IgnoresOverride(category, override) ==
    Ok(DictGet(TYPE_MODEL_MAP, get_category_type(category), "xgboost"))

select_model(category, override) ==
    IF override # "" /\ override # "auto"
    THEN IF override \notin ValidModels
         THEN Raise("ValueError", "Invalid model override '" \o override \o "'", "")
         ELSE Ok(override)
    ELSE LET cat_type == get_category_type(category)
         IN  Ok(DictGet(TYPE_MODEL_MAP, cat_type, "xgboost"))

\* the defaults returned for the type other
get_fallback_list_DefaultForOther(category) ==
    LET cat_type == get_category_type(category)
    IN  IF cat_type = "other" THEN <<"prophet", "xgboost">>
        ELSE TYPE_FALLBACK_MAP[cat_type]

get_fallback_list(category) ==
    LET cat_type == get_category_type(category)
        defaults == <<"prophet", "xgboost">>
    IN  DictGet(TYPE_FALLBACK_MAP, cat_type, defaults)

(***************************************************************************)
(* Numbers.  Quantities are integers counting thousandths: 1500 is 1.5.    *)
(***************************************************************************)
Max(a, b) == IF a >= b THEN a ELSE b

Abs(a) == IF a >= 0 THEN a ELSE -a

\* an integer number of units, in thousandths
Units(n) == n * 1000

\* the nearest integer to n / d (n >= 0, d > 0), a tie going to the even one
RoundDiv(n, d) ==
    LET q == n \div d
        r == n % d
    IN  IF 2 * r < d THEN q
        ELSE IF 2 * r > d THEN q + 1
        ELSE IF q % 2 = 0 THEN q ELSE q + 1

\* round(p, 2) of a non-negative p: thousandths rounded to a multiple of ten
Round2(p) == 10 * RoundDiv(p, 10)

RECURSIVE SeqSum(_)
SeqSum(s) == IF s = << >> THEN 0 ELSE Head(s) + SeqSum(Tail(s))

RECURSIVE Gcd(_, _)
Gcd(a, b) == IF b = 0 THEN a ELSE Gcd(b, a % b)

Lcm(a, b) == (a \div Gcd(a, b)) * b

RECURSIVE LcmOf(_)
LcmOf(s) == IF s = << >> THEN 1 ELSE Lcm(Head(s), LcmOf(Tail(s)))

\* an Optional argument: Nothing is None
Nothing == << >>

Some(x) == <<x>>

\* float("nan")
NaN == <<0, 0>>

\* a float that is not NaN, kept exactly: the fraction n / d in lowest terms
Rat(n, d) == LET g == Gcd(Abs(n), d) IN <<n \div g, d \div g>>

\* np.mean of a non-empty list of fractions
Mean(s) ==
    LET L == LcmOf([i \in 1..Len(s) |-> s[i][2]])
        total == SeqSum([i \in 1..Len(s) |-> s[i][1] * (L \div s[i][2])])
    IN  Rat(total, L * Len(s))

\* the square of Series.std() (ddof = 1) of two or more fractions of
\* denominator 1
SampleVariance(s) ==
    LET w == Len(s)
        sum == SeqSum([i \in 1..w |-> s[i][1]])
        squares == SeqSum([i \in 1..w |-> s[i][1] * s[i][1]])
    IN  Rat(w * squares - sum * sum, w * (w - 1))

(***************************************************************************)
(* The sales_data collection and the data frame loaded from it.  A         *)
(* document is [product_name, product_category, date, units_sold]; a date  *)
(* is month-granular, [year, month].                                       *)
(***************************************************************************)
\* months since year 0, the sort key of a date
MonthNo(d) == d.year * 12 + (d.month - 1)

DateOf(n) == [year |-> n \div 12, month |-> (n % 12) + 1]

\* row r put into the date-sorted s after every row that is not later
RECURSIVE InsertByDate(_, _)
InsertByDate(s, r) ==
    IF s = << >> THEN <<r>>
    ELSE IF MonthNo(Head(s).date) <= MonthNo(r.date)
         THEN <<Head(s)>> \o InsertByDate(Tail(s), r)
         ELSE <<r>> \o s

\* cursor.sort("date", ASCENDING)
RECURSIVE SortByDate(_)
SortByDate(s) ==
    IF s = << >> THEN << >>
    ELSE InsertByDate(SortByDate(SubSeq(s, 1, Len(s) - 1)), s[Len(s)])

\* find_documents("sales_data", {"product_name": product}, sort_field="date")
FindSales(coll, product) ==
    LET OfProduct(doc) == doc.product_name = product
    IN  SortByDate(SelectSeq(coll, OfProduct))

\* s < t in the order of Python strings (by character code, a prefix first)
RECURSIVE StrLess(_, _)
StrLess(s, t) ==
    IF t = << >> THEN FALSE
    ELSE IF s = << >> THEN TRUE
    ELSE IF Head(s) # Head(t) THEN Head(s) < Head(t)
    ELSE StrLess(Tail(s), Tail(t))

\* df["product_category"].mode().iloc[0]: the most frequent value, the
\* smallest one when several are as frequent
ModeCategory(df) ==
    LET values == {df[i].product_category : i \in 1..Len(df)}
        Count(v) == Cardinality({i \in 1..Len(df) : df[i].product_category = v})
        top == {v \in values : \A w \in values : Count(w) <= Count(v)}
    IN  CHOOSE v \in top : \A w \in top : w = v \/ StrLess(v, w)

(***************************************************************************)
(* forecasting/feature_engineering.py: the columns, and where they are     *)
(* missing.  Row i (1-based, in date order) of the feature table is row i  *)
(* of the data frame.                                                      *)
(***************************************************************************)
CATEGORY_FEATURES ==
    [antibiotic |->
        <<"month", "quarter", "year", "lag_1", "lag_2", "lag_3", "lag_6", "lag_12",
          "rolling_mean_3", "rolling_mean_6", "rolling_std_3", "month_sin",
          "month_cos", "is_flu_season", "disease_index", "prescription_rate",
          "temperature_avg">>,
     acute |->
        <<"month", "quarter", "year", "lag_1", "lag_2", "lag_3", "lag_6",
          "rolling_mean_3", "rolling_mean_6", "rolling_std_3", "month_sin",
          "month_cos", "promotion_flag", "is_monsoon", "weather_index",
          "week_of_year">>,
     chronic |->
        <<"month", "quarter", "year", "lag_1", "lag_3", "lag_6", "lag_12",
          "rolling_mean_3", "rolling_mean_6", "rolling_mean_12", "rolling_std_6",
          "month_sin", "month_cos", "trend_index", "refill_cycle",
          "patient_adherence">>,
     gastro |->
        <<"month", "quarter", "year", "lag_1", "lag_2", "lag_3", "lag_6",
          "rolling_mean_3", "rolling_mean_6", "rolling_std_3", "month_sin",
          "month_cos", "is_festival_period", "dietary_index", "is_monsoon">>,
     other |->
        <<"month", "quarter", "year", "lag_1", "lag_3", "lag_6", "rolling_mean_3",
          "rolling_mean_6", "month_sin", "month_cos">>]

\* the columns build_features and build_future_features compute
FeatureColumns ==
    {"month", "quarter", "year", "week_of_year", "month_sin", "month_cos",
     "lag_1", "lag_2", "lag_3", "lag_6", "lag_12",
     "rolling_mean_3", "rolling_mean_6", "rolling_mean_12",
     "rolling_std_3", "rolling_std_6", "rolling_std_12",
     "trend_index", "is_flu_season", "is_monsoon", "is_festival_period",
     "disease_index", "prescription_rate", "temperature_avg", "promotion_flag",
     "weather_index", "refill_cycle", "patient_adherence", "dietary_index"}

\* the number of leading rows in which a column is missing: shift(lag) leaves
\* the first lag rows empty, shift(1).rolling(window) the first window rows
LeadingMissing ==
    [lag_1 |-> 1, lag_2 |-> 2, lag_3 |-> 3, lag_6 |-> 6, lag_12 |-> 12,
     rolling_mean_3 |-> 3, rolling_mean_6 |-> 6, rolling_mean_12 |-> 12,
     rolling_std_3 |-> 3, rolling_std_6 |-> 6, rolling_std_12 |-> 12]

\* whether column col of the feature table is missing (NaN) in row i
FeatureIsNaN(col, i) == i <= DictGet(LeadingMissing, col, 0)

\* build_features: the selected feature names (the table itself is the data
\* frame, its columns computed on demand)
build_features_cols(category) ==
    LET cat == get_category_type(category)
        desired == DictGet(CATEGORY_FEATURES, cat, CATEGORY_FEATURES["other"])
        IsColumn(f) == f \in FeatureColumns
    IN  SelectSeq(desired, IsColumn)

\* Series.tail(n)
TailN(s, n) == IF Len(s) <= n THEN s ELSE SubSeq(s, Len(s) - n + 1, Len(s))

Lags == {1, 2, 3, 6, 12}

Windows == {3, 6, 12}

\* Series.shift(k) of a column of numbers
Shift_OneMore(s, k) ==
    [i \in 1..Len(s) |-> IF i > k + 1 THEN <<s[i - k - 1], 1>> ELSE NaN]

Shift(s, k) == [i \in 1..Len(s) |-> IF i > k THEN <<s[i - k], 1>> ELSE NaN]

\* the window of .rolling(w) at row i: the w entries ending at row i, or
\* Nothing when there are fewer than w rows or one of the entries is missing
RollingWindow(t, w, i) ==
    IF i < w THEN Nothing
    ELSE IF \E j \in (i - w + 1)..i : t[j] = NaN THEN Nothing
    ELSE Some(SubSeq(t, i - w + 1, i))

\* .rolling(w).mean() and .rolling(w).std() at row i; a rolling_std entry of
\* the model is the square of the standard deviation
RollingMean(t, w, i) ==
    LET win == RollingWindow(t, w, i)
    IN  IF win = Nothing THEN NaN ELSE Mean(win[1])

RollingStd(t, w, i) ==
    LET win == RollingWindow(t, w, i)
    IN  IF win = Nothing THEN NaN ELSE SampleVariance(win[1])

\* build_features: the lag, rolling and trend columns of the feature table,
\* row i of the model being row i - 1 of the table
build_features(df) ==
    LET sorted == SortByDate(df)
        units_sold == [i \in 1..Len(sorted) |-> sorted[i].units_sold]
    IN  [i \in 1..Len(sorted) |->
            [date |-> sorted[i].date,
             units_sold |-> sorted[i].units_sold,
             lag |-> [k \in Lags |-> Shift(units_sold, k)[i]],
             rolling_mean |->
                 [w \in Windows |-> RollingMean(Shift(units_sold, 1), w, i)],
             rolling_std |->
                 [w \in Windows |-> RollingStd(Shift(units_sold, 1), w, i)],
             trend_index |-> i - 1]]

\* one pass of the loop of build_future_features: future row number i
\* (from 1), made from the history buffer (date, trend, lag and rolling mean
\* columns)
future_row(dt, i, n_last, history) ==
    [date |-> dt,
     trend_index |-> n_last + (i - 1),
     lag |-> [k \in Lags |->
                 IF Len(history) >= k THEN history[Len(history) - k + 1]
                 ELSE NaN],
     rolling_mean |->
         [w \in Windows |->
             IF Len(history) >= w THEN Mean(TailN(history, w))
             ELSE IF history # << >> THEN Mean(history) ELSE <<0, 1>>]]

\* history.append(row.get("rolling_mean_3", ...))
history_append_Lag1(history, row) == Append(history, row.lag[1])

history_append(history, row) == Append(history, row.rolling_mean[3])

\* list(last_known_values)
HistorySeed(last_known_values) ==
    [j \in 1..Len(last_known_values) |-> <<last_known_values[j], 1>>]

RECURSIVE FutureLoop(_, _, _, _, _)
FutureLoop(last_date, n_months, n_last, rows, history) ==
    IF Len(rows) >= n_months THEN rows
    ELSE LET i == Len(rows) + 1
             row == future_row(DateOf(MonthNo(last_date) + i), i, n_last, history)
         IN  FutureLoop(last_date, n_months, n_last, Append(rows, row),
                        history_append(history, row))

build_future_features(last_date, n_months, last_known_values) ==
    FutureLoop(last_date, n_months, Len(last_known_values), << >>,
               HistorySeed(last_known_values))

(***************************************************************************)
(* The fitting libraries (Prophet, XGBoost, statsmodels) are outside the   *)
(* repository.  A fit or a forecast either raises or returns as many       *)
(* values as it was asked for; which, and what values, is not decided by   *)
(* the code, so each adapter takes the library's behaviour as a parameter. *)
(* Raw library output may be negative.                                     *)
(***************************************************************************)
RawShapes == {"up", "dip"}

LibNo == [prophet |-> 1, xgboost |-> 2, sarimax |-> 3]

\* the n values a library returns: thousandths, each library its own values,
\* the first values of a "dip" negative
RawForecast(lib, shape, n) ==
    [i \in 1..n |->
        IF shape = "up"
        THEN LibNo[lib] * 1000 + 36 * i + 4
        ELSE (i - 4) * (LibNo[lib] * 100 + 36) + 2]

\* str(e) of an exception raised inside a library
LibError(lib) == lib \o " library error"

\* how one Prophet or one XGBoost model can behave
FitOutcomes ==
    {[raises |-> TRUE, shape |-> "up"]}
    \cup {[raises |-> FALSE, shape |-> sh] : sh \in RawShapes}

\* how statsmodels can behave in one call of the SARIMAX adapter: the fit with
\* the default order, the fit with the simpler order, the forecast
SarimaxOutcomes ==
    {[fit1_raises |-> FALSE, fit2_raises |-> FALSE, forecast_raises |-> TRUE,
      shape |-> "up"],
     [fit1_raises |-> TRUE, fit2_raises |-> TRUE, forecast_raises |-> FALSE,
      shape |-> "up"],
     [fit1_raises |-> TRUE, fit2_raises |-> FALSE, forecast_raises |-> TRUE,
      shape |-> "up"]}
    \cup {[fit1_raises |-> f1, fit2_raises |-> FALSE, forecast_raises |-> FALSE,
           shape |-> sh] : f1 \in BOOLEAN, sh \in RawShapes}

\* the two libraries behind the blended adapter (XGBoost is not reached when
\* Prophet raises)
HybridOutcomes ==
    {[prophet |-> [raises |-> TRUE, shape |-> "up"],
      xgboost |-> [raises |-> TRUE, shape |-> "up"]]}
    \cup {[prophet |-> [raises |-> FALSE, shape |-> sh], xgboost |-> x] :
            sh \in RawShapes, x \in FitOutcomes}

LibOutcomes(model_name) ==
    CASE model_name = "sarimax" -> SarimaxOutcomes
      [] model_name = "hybrid" -> HybridOutcomes
      [] OTHER -> FitOutcomes

(***************************************************************************)
(* models/*.py: the four adapters.  An adapter's result is the call's      *)
(* result and, in fits, the training set of every fit it started (the      *)
(* dates of the rows handed to the library).                               *)
(***************************************************************************)
AdapterOk(preds, fits) ==
    [ok |-> TRUE, val |-> preds, exc |-> "", msg |-> "", fits |-> fits]

AdapterRaise(e, m, fits) ==
    [ok |-> FALSE, val |-> << >>, exc |-> e, msg |-> m, fits |-> fits]

\* the row numbers i of df with Keep(i), ascending
RowsWhere(df, Keep(_)) == SelectSeq([i \in 1..Len(df) |-> i], Keep)

\* the target year's rows let into the training set
TrainRows_Inclusive(df, forecast_year) ==
    LET UpTo(i) == df[i].date.year <= forecast_year
    IN  RowsWhere(df, UpTo)

\* df[df["date"].dt.year < forecast_year], as row numbers of df
TrainRows(df, forecast_year) ==
    LET Before(i) == df[i].date.year < forecast_year
    IN  RowsWhere(df, Before)

DatesOf(df, rows) == {df[rows[j]].date : j \in 1..Len(rows)}

\* the clipping left out
ClipAtZero_Missing(preds) == preds

\* Series.clip(lower=0), ndarray.clip(min=0), np.maximum(preds, 0)
ClipAtZero(preds) == [i \in 1..Len(preds) |-> Max(preds[i], 0)]

InsufficientData(n, need) ==
    "Insufficient training data: " \o ToString(n) \o " rows (need >= "
        \o ToString(need) \o ")"

\* the row check off by one: 12 rows refused
train_and_predict_prophet_OffByOne(df, forecast_year, o) ==
    LET train == TrainRows(df, forecast_year)
        fit == [lib |-> "prophet", train |-> DatesOf(df, train)]
    IN  IF Len(train) <= 12
        THEN AdapterRaise("ValueError", InsufficientData(Len(train), 12), << >>)
        ELSE IF o.raises
        THEN AdapterRaise("Exception", LibError("prophet"), <<fit>>)
        ELSE AdapterOk(ClipAtZero(RawForecast("prophet", o.shape, 12)), <<fit>>)

train_and_predict_prophet(df, forecast_year, o) ==
    LET train == TrainRows(df, forecast_year)
        fit == [lib |-> "prophet", train |-> DatesOf(df, train)]
    IN  IF Len(train) < 12
        THEN AdapterRaise("ValueError", InsufficientData(Len(train), 12), << >>)
        ELSE IF o.raises
        THEN AdapterRaise("Exception", LibError("prophet"), <<fit>>)
        ELSE AdapterOk(ClipAtZero(RawForecast("prophet", o.shape, 12)), <<fit>>)

\* the dropna left out: rows with a missing lag or rolling feature are kept
train_and_predict_xgboost_NoDropna(df, feature_cols, forecast_year, future_features_df, o) ==
    LET train == TrainRows(df, forecast_year)
        fit == [lib |-> "xgboost", train |-> DatesOf(df, train)]
    IN  IF Len(train) < 12
        THEN AdapterRaise("ValueError", InsufficientData(Len(train), 12), << >>)
        ELSE IF o.raises
        THEN AdapterRaise("Exception", LibError("xgboost"), <<fit>>)
        ELSE IF future_features_df = Nothing
        THEN AdapterRaise("ValueError",
                 "future_features_df must be provided for XGBoost prediction",
                 <<fit>>)
        ELSE AdapterOk(
                 ClipAtZero(RawForecast("xgboost", o.shape,
                                        Len(future_features_df[1]))),
                 <<fit>>)

train_and_predict_xgboost(df, feature_cols, forecast_year, future_features_df, o) ==
    LET Complete(i) ==
            \A c \in 1..Len(feature_cols) : ~FeatureIsNaN(feature_cols[c], i)
        train == SelectSeq(TrainRows(df, forecast_year), Complete)
        fit == [lib |-> "xgboost", train |-> DatesOf(df, train)]
    IN  IF Len(train) < 12
        THEN AdapterRaise("ValueError", InsufficientData(Len(train), 12), << >>)
        ELSE IF o.raises
        THEN AdapterRaise("Exception", LibError("xgboost"), <<fit>>)
        ELSE IF future_features_df = Nothing
        THEN AdapterRaise("ValueError",
                 "future_features_df must be provided for XGBoost prediction",
                 <<fit>>)
        ELSE AdapterOk(
                 ClipAtZero(RawForecast("xgboost", o.shape,
                                        Len(future_features_df[1]))),
                 <<fit>>)

\* the row check off by one: 24 rows refused
train_and_predict_sarimax_OffByOne(df, forecast_year, exog_cols, o) ==
    LET train == TrainRows(df, forecast_year)
        fit1 == [lib |-> "sarimax (1,1,1)(1,1,1,12)", train |-> DatesOf(df, train)]
        fit2 == [lib |-> "sarimax (1,0,0)(1,0,0,12)", train |-> DatesOf(df, train)]
        fits == IF o.fit1_raises THEN <<fit1, fit2>> ELSE <<fit1>>
        e == LibError(fit1.lib)
        e2 == LibError(fit2.lib)
    IN  IF Len(train) <= 24
        THEN AdapterRaise("ValueError", InsufficientData(Len(train), 24), << >>)
        ELSE IF o.fit1_raises /\ o.fit2_raises
        THEN AdapterRaise("RuntimeError",
                 "SARIMAX training failed: " \o e \o " | " \o e2, fits)
        ELSE IF o.forecast_raises
        THEN AdapterRaise("RuntimeError",
                 "Prediction failed: " \o LibError("sarimax forecast"), fits)
        ELSE AdapterOk(ClipAtZero(RawForecast("sarimax", o.shape, 12)), fits)

\* no second fit: the first fit's exception is the call's failure
train_and_predict_sarimax_NoRetry(df, forecast_year, exog_cols, o) ==
    LET train == TrainRows(df, forecast_year)
        fit1 == [lib |-> "sarimax (1,1,1)(1,1,1,12)", train |-> DatesOf(df, train)]
        e == LibError(fit1.lib)
    IN  IF Len(train) < 24
        THEN AdapterRaise("ValueError", InsufficientData(Len(train), 24), << >>)
        ELSE IF o.fit1_raises
        THEN AdapterRaise("RuntimeError", "SARIMAX training failed: " \o e,
                          <<fit1>>)
        ELSE IF o.forecast_raises
        THEN AdapterRaise("RuntimeError",
                 "Prediction failed: " \o LibError("sarimax forecast"), <<fit1>>)
        ELSE AdapterOk(ClipAtZero(RawForecast("sarimax", o.shape, 12)), <<fit1>>)

train_and_predict_sarimax(df, forecast_year, exog_cols, o) ==
    LET train == TrainRows(df, forecast_year)
        fit1 == [lib |-> "sarimax (1,1,1)(1,1,1,12)", train |-> DatesOf(df, train)]
        fit2 == [lib |-> "sarimax (1,0,0)(1,0,0,12)", train |-> DatesOf(df, train)]
        fits == IF o.fit1_raises THEN <<fit1, fit2>> ELSE <<fit1>>
        e == LibError(fit1.lib)
        e2 == LibError(fit2.lib)
    IN  IF Len(train) < 24
        THEN AdapterRaise("ValueError", InsufficientData(Len(train), 24), << >>)
        ELSE IF o.fit1_raises /\ o.fit2_raises
        THEN AdapterRaise("RuntimeError",
                 "SARIMAX training failed: " \o e \o " | " \o e2, fits)
        ELSE IF o.forecast_raises
        THEN AdapterRaise("RuntimeError",
                 "Prediction failed: " \o LibError("sarimax forecast"), fits)
        ELSE AdapterOk(ClipAtZero(RawForecast("sarimax", o.shape, 12)), fits)

\* prophet_weight = 0.5, as the fraction WeightNum / WeightDen
WeightNum == 1
WeightDen == 2

\* a partial result: the trend-seasonal predictions alone when the
\* gradient-boosted sub-model fails
train_and_predict_hybrid_Partial(df, feature_cols, forecast_year, future_features_df, o) ==
    LET p == train_and_predict_prophet(df, forecast_year, o.prophet)
        x == train_and_predict_xgboost(df, feature_cols, forecast_year,
                                       future_features_df, o.xgboost)
        n == IF Len(p.val) <= Len(x.val) THEN Len(p.val) ELSE Len(x.val)
    IN  IF ~p.ok THEN p
        ELSE IF ~x.ok THEN AdapterOk(p.val, p.fits \o x.fits)
        ELSE AdapterOk(
                 [i \in 1..n |->
                    Max(0, (WeightNum * p.val[i]
                             + (WeightDen - WeightNum) * x.val[i]) \div WeightDen)],
                 p.fits \o x.fits)

train_and_predict_hybrid(df, feature_cols, forecast_year, future_features_df, o) ==
    LET p == train_and_predict_prophet(df, forecast_year, o.prophet)
        x == train_and_predict_xgboost(df, feature_cols, forecast_year,
                                       future_features_df, o.xgboost)
        n == IF Len(p.val) <= Len(x.val) THEN Len(p.val) ELSE Len(x.val)
    IN  IF ~p.ok THEN p
        ELSE IF ~x.ok THEN AdapterRaise(x.exc, x.msg, p.fits \o x.fits)
        ELSE AdapterOk(
                 [i \in 1..n |->
                    Max(0, (WeightNum * p.val[i]
                             + (WeightDen - WeightNum) * x.val[i]) \div WeightDen)],
                 p.fits \o x.fits)

(***************************************************************************)
(* forecasting/evaluator.py.  MAE and RMSE are thousandths rounded to two  *)
(* decimals (multiples of ten); MAPE is the formatted string.              *)
(***************************************************************************)
\* the nearest integer to sqrt(s / d), for s >= 0 and d > 0, at most bound
RoundSqrt(s, d, bound) ==
    LET n == CHOOSE m \in 0..bound : m * m * d <= s /\ s < (m + 1) * (m + 1) * d
    IN  IF 4 * (s - n * n * d - n * d) >= d THEN n + 1 ELSE n

TwoDigits(n) == IF n < 10 THEN "0" \o ToString(n) ELSE ToString(n)

\* f"{mape:.2f}%", mape given in hundredths of a percent
FormatPercent(h) == ToString(h \div 100) \o "." \o TwoDigits(h % 100) \o "%"


\* the NaN check forgotten: only None entries are dropped
KeptPairs_NaNKept(actual, predicted) ==
    LET n == IF Len(actual) <= Len(predicted) THEN Len(actual) ELSE Len(predicted)
        Known(i) == actual[i] # Nothing
    IN  SelectSeq([i \in 1..n |-> i], Known)

\* zero actuals dropped from every metric, not only from MAPE
KeptPairs_DropZero(actual, predicted) ==
    LET n == IF Len(actual) <= Len(predicted) THEN Len(actual) ELSE Len(predicted)
        Known(i) == actual[i] # Nothing /\ actual[i] # NaN /\ actual[i][1] # 0
    IN  SelectSeq([i \in 1..n |-> i], Known)

\* pairs: the positions of zip(actual, predicted) whose actual is neither
\* None nor NaN
KeptPairs(actual, predicted) ==
    LET n == IF Len(actual) <= Len(predicted) THEN Len(actual) ELSE Len(predicted)
        Known(i) == actual[i] # Nothing /\ actual[i] # NaN
    IN  SelectSeq([i \in 1..n |-> i], Known)

calculate_metrics(actual, predicted) ==
    LET pairs == KeptPairs(actual, predicted)
        k == Len(pairs)
        Diff(i) == Units(actual[i][1]) - predicted[i]
        absd == [j \in 1..k |-> Abs(Diff(pairs[j]))]
        sqd == [j \in 1..k |-> Diff(pairs[j]) * Diff(pairs[j])]
        largest == CHOOSE m \in {absd[j] : j \in 1..k} :
                       \A j \in 1..k : absd[j] <= m
        NonZero(i) == actual[i][1] # 0
        nz == SelectSeq(pairs, NonZero)
        l == LcmOf([j \in 1..Len(nz) |-> Abs(actual[nz[j]][1])])
        ratios == [j \in 1..Len(nz) |->
                     Abs(Diff(nz[j])) * (l \div Abs(actual[nz[j]][1]))]
    IN  IF k = 0
        THEN [MAE |-> 0, RMSE |-> 0, MAPE |-> "N/A"]
        ELSE [MAE |-> 10 * RoundDiv(SeqSum(absd), 10 * k),
              RMSE |-> 10 * RoundSqrt(SeqSum(sqd), 100 * k, largest \div 10 + 1),
              MAPE |-> IF Len(nz) > 0
                       THEN FormatPercent(RoundDiv(10 * SeqSum(ratios), Len(nz) * l))
                       ELSE "N/A"]

(***************************************************************************)
(* routes/forecast_routes.py                                               *)
(***************************************************************************)
MONTH_LABELS ==
    <<"Jan-2025", "Feb-2025", "Mar-2025", "Apr-2025", "May-2025", "Jun-2025",
      "Jul-2025", "Aug-2025", "Sep-2025", "Oct-2025", "Nov-2025", "Dec-2025">>

_run_model(model_name, df, feature_cols, future_df, forecast_year, o) ==
    CASE model_name = "prophet" ->
           train_and_predict_prophet(df, forecast_year, o)
      [] model_name = "xgboost" ->
           train_and_predict_xgboost(df, feature_cols, forecast_year,
                                     Some(future_df), o)
      [] model_name = "sarimax" ->
           LET NotCalendar(c) ==
                   c \notin {"month", "quarter", "year", "trend_index"}
               exog_cols == SelectSeq(feature_cols, NotCalendar)
           IN  train_and_predict_sarimax(df, forecast_year, exog_cols, o)
      [] model_name = "hybrid" ->
           train_and_predict_hybrid(df, feature_cols, forecast_year,
                                    Some(future_df), o)
      [] OTHER -> AdapterRaise("ValueError", "Unknown model: " \o model_name, << >>)

(***************************************************************************)
(* State.                                                                  *)
(***************************************************************************)
VARIABLES
    connected,          \* database/mongo.py: _db is not None
    sales_data,         \* the sales_data collection, in insertion order
    forecast_results,   \* the forecast_results collection, in insertion order
    pc,                 \* where the run_forecast invocation stands
    request,            \* its ForecastRequest
    df,                 \* the product's documents, sorted by date
    category,           \* the category string in use
    feature_cols,       \* the feature names build_features selected
    future_df,          \* the future feature rows
    model_name,         \* the model in use, then the result's model_used
    fallback_models,    \* the list walked after the primary failed
    fb_i,               \* the position of the walk in fallback_models
    success,            \* whether a fallback succeeded
    errors,             \* one message per failed attempt
    predictions,        \* what the successful adapter returned
    result,             \* the ForecastResult, once built
    response,           \* what the caller receives
    attempts,           \* history: every _run_model call and its outcome
    sel_in,             \* selector harness: the arguments of one call
    sel_out,            \* selector harness: what the selector functions returned
    ev_in,              \* evaluator harness: the arguments of one call
    ev_out,             \* evaluator harness: what calculate_metrics returned
    ad_in,              \* adapter harness: the arguments of one call
    ad_out,             \* adapter harness: what the adapters returned
    fe_in,              \* feature harness: the arguments of one call
    fe_out,             \* feature harness: the tables as far as they are built
    other               \* the locals of a second invocation while it is suspended

run_vars ==
    <<pc, request, df, category, feature_cols, future_df, model_name,
      fallback_models, fb_i, success, errors, predictions, result, response,
      attempts>>

sel_vars == <<sel_in, sel_out>>

ev_vars == <<ev_in, ev_out>>

ad_vars == <<ad_in, ad_out>>

fe_vars == <<fe_in, fe_out>>

vars == <<connected, sales_data, forecast_results, run_vars, sel_vars, ev_vars,
          ad_vars, fe_vars, other>>

(***************************************************************************)
(* The data the model runs on.  Product p1 has one document per month for  *)
(* n consecutive months from January of year y0; product p2 has none.      *)
(***************************************************************************)
\* the largest number of documents of a product
MaxRows == 36

RowCounts == {11, 12, 17, 18, 23, 24, MaxRows}

StartYears == {2023, 2024, 2025}

\* the years a forecast is requested for
Years == {2025, 2026}

Products == {"p1", "p2"}

\* product_category values as uploaded: one raw string per logical type
DataCategories ==
    {[i \in 1..Len(K_cefixime) |-> UpperChar(K_cefixime[i])],
     <<UpperChar(Head(K_omeprazole))>> \o Tail(K_omeprazole),
     K_diclofenac_sodium,
     <<UpperChar(Head(K_sitagliptin))>> \o Tail(K_sitagliptin),
     <<80, 97, 110, 97, 100, 111, 108>>}

\* the category field of a request: absent, or an explicit raw string
RequestCategories == {None, <<32>> \o K_omeprazole}

\* the model field of a request as sent: a member of ForecastModel, or not
RequestModels == ValidModels \cup {"auto", "lstm"}

\* units sold in the i-th month of a series
UnitsSold(i) == (i * 3) % 5

Series(product, cat, y0, n) ==
    [i \in 1..n |->
        [product_name |-> product, product_category |-> cat,
         date |-> DateOf(y0 * 12 + (i - 1)), units_sold |-> UnitsSold(i)]]

\* two uploads, the later months first
StoredOrder(s) ==
    SubSeq(s, Len(s) \div 2 + 1, Len(s)) \o SubSeq(s, 1, Len(s) \div 2)

\* a result stored by an earlier run, with the _id the insert gave it
EarlierResult ==
    [_id |-> 1, product |-> "p1", year |-> 2025, category |-> K_cefixime,
     model_used |-> "prophet", months |-> MONTH_LABELS,
     actual |-> [i \in 1..12 |-> Nothing], predicted |-> [i \in 1..12 |-> 1000],
     metrics |-> Nothing, features_used |-> << >>]

(***************************************************************************)
(* schemas/pydantic_models.py and database/mongo.py                        *)
(***************************************************************************)
\* class ForecastModel(str, Enum)
ForecastModel == {"prophet", "xgboost", "sarimax", "hybrid", "auto"}

\* insert_one in place of the upsert: a document is added on every call
upsert_document_InsertAlways(coll, filter_query, update_data) ==
    Append(coll, update_data @@ filter_query)

\* the filter matching on the year alone
upsert_document_ByYear(coll, filter_query, update_data) ==
    LET hits == {i \in 1..Len(coll) : coll[i].year = filter_query.year}
        first == CHOOSE i \in hits : \A j \in hits : i <= j
    IN  IF hits = {}
        THEN Append(coll, update_data @@ filter_query)
        ELSE [coll EXCEPT ![first] = update_data @@ coll[first]]

\* update_one(filter_query, {"$set": update_data}, upsert=True): the first
\* document matching the filter gets the fields of update_data; when none
\* matches, a document with the filter's and update_data's fields is inserted
upsert_document(coll, filter_query, update_data) ==
    LET Matches(i) ==
            /\ coll[i].product = filter_query.product
            /\ coll[i].year = filter_query.year
        hits == {i \in 1..Len(coll) : Matches(i)}
        first == CHOOSE i \in hits : \A j \in hits : i <= j
    IN  IF hits = {}
        THEN Append(coll, update_data @@ filter_query)
        ELSE [coll EXCEPT ![first] = update_data @@ coll[first]]

(***************************************************************************)
(* routes/forecast_routes.py: run_forecast.  One action per stretch of the *)
(* handler; a model attempt is a step of its own.                          *)
(***************************************************************************)
NoResponse == [status |-> 0, detail |-> "", result |-> Nothing]

\* no invocation under way
\* the locals of an invocation that has not started
IdleContext ==
    [pc |-> "idle",
     request |-> [product |-> "", category |-> None, model |-> "", year |-> 0],
     df |-> << >>, category |-> << >>, feature_cols |-> << >>,
     future_df |-> << >>, model_name |-> "", fallback_models |-> << >>,
     fb_i |-> 0, success |-> FALSE, errors |-> << >>, predictions |-> << >>,
     result |-> Nothing, response |-> NoResponse, attempts |-> << >>]

NoFeIn == [df |-> << >>, forecast_year |-> 0]

NoFeOut == [built |-> FALSE, started |-> FALSE]

FeIdle ==
    /\ fe_in = NoFeIn
    /\ fe_out = NoFeOut

RunIdle ==
    /\ other = IdleContext
    /\ pc = "idle"
    /\ request = [product |-> "", category |-> None, model |-> "", year |-> 0]
    /\ df = << >>
    /\ category = << >>
    /\ feature_cols = << >>
    /\ future_df = << >>
    /\ model_name = ""
    /\ fallback_models = << >>
    /\ fb_i = 0
    /\ success = FALSE
    /\ errors = << >>
    /\ predictions = << >>
    /\ result = Nothing
    /\ response = NoResponse
    /\ attempts = << >>

\* raise HTTPException(status_code, detail), or any exception that leaves the
\* handler
Fails(status_code, detail) ==
    /\ pc' = "error"
    /\ response' = [status |-> status_code, detail |-> detail, result |-> Nothing]

\* ", ".join-style concatenation of a list of strings
RECURSIVE Join(_, _)
Join(strs, sep) ==
    IF strs = << >> THEN ""
    ELSE IF Len(strs) = 1 THEN Head(strs)
    ELSE Head(strs) \o sep \o Join(Tail(strs), sep)

Attempt(role, name, r) ==
    [role |-> role, model |-> name, ok |-> r.ok, msg |-> r.msg,
     returned |-> r.val, fits |-> r.fits]

\* lifespan startup: connect_to_mongodb succeeded
Connect ==
    /\ pc = "idle"
    /\ ~connected
    /\ connected' = TRUE
    /\ UNCHANGED <<sales_data, forecast_results, run_vars, sel_vars, ev_vars,
                   ad_vars, fe_vars, other>>

\* POST /forecast/run: validation of the body as a ForecastRequest, and the
\* connection check
Request(product, cat, model, year) ==
    /\ pc = "idle"
    /\ request' = [product |-> product, category |-> cat, model |-> model,
                   year |-> year]
    /\ IF model \notin ForecastModel
       THEN Fails(422, "Input should be 'prophet', 'xgboost', 'sarimax', 'hybrid' or 'auto'")
       ELSE IF ~connected
       THEN Fails(400, "Not connected to MongoDB.")
       ELSE pc' = "load" /\ UNCHANGED response
    /\ UNCHANGED <<connected, sales_data, forecast_results, df, category,
                   feature_cols, future_df, model_name, fallback_models, fb_i,
                   success, errors, predictions, result, attempts, sel_vars, ev_vars,
                   ad_vars, fe_vars, other>>

\* the later of two dates
LaterDate(a, b) == IF MonthNo(a) >= MonthNo(b) THEN a ELSE b

RECURSIVE MaxDate(_, _)
MaxDate(frame, rows) ==
    IF Len(rows) = 1 THEN frame[Head(rows)].date
    ELSE LaterDate(frame[Head(rows)].date, MaxDate(frame, Tail(rows)))

\* _load_product_data, the category, the feature tables, the model selection
LoadProductData ==
    /\ pc = "load"
    /\ \E docs \in {FindSales(sales_data, request.product)} :
       \E train_df \in {TrainRows(docs, request.year)} :
         LET cat == IF IsFalsy(request.category)
                    THEN ModeCategory(docs)
                    ELSE request.category
             last_date == IF train_df # << >>
                          THEN MaxDate(docs, train_df)
                          ELSE [year |-> request.year - 1, month |-> 12]
             last_values == TailN([j \in 1..Len(train_df) |->
                                      docs[train_df[j]].units_sold], 12)
             chosen == select_model(cat, request.model)
         IN  IF docs = << >>
             THEN /\ Fails(404, "No data found for product '" \o request.product \o "'")
                  /\ UNCHANGED <<df, category, feature_cols, future_df, model_name>>
             ELSE IF ~chosen.ok
             THEN /\ Fails(500, chosen.msg)
                  /\ UNCHANGED <<df, category, feature_cols, future_df, model_name>>
             ELSE /\ df' = docs
                  /\ category' = cat
                  /\ feature_cols' = build_features_cols(cat)
                  /\ future_df' = build_future_features(last_date, 12, last_values)
                  /\ model_name' = chosen.val
                  /\ pc' = "primary"
                  /\ UNCHANGED response
    /\ UNCHANGED <<connected, sales_data, forecast_results, request,
                   fallback_models, fb_i, success, errors, predictions, result,
                   attempts, sel_vars, ev_vars,
                   ad_vars, fe_vars, other>>

\* the primary attempt; when it raises, the fallback walk is set up
TrainPrimary ==
    /\ pc = "primary"
    /\ \E o \in LibOutcomes(model_name) :
       \E r \in {_run_model(model_name, df, feature_cols, future_df,
                             request.year, o)} :
             /\ attempts' = Append(attempts, Attempt("Primary", model_name, r))
             /\ IF r.ok
                THEN /\ predictions' = r.val
                     /\ pc' = "actuals"
                     /\ UNCHANGED <<fallback_models, fb_i, success, errors>>
                ELSE /\ fallback_models' = get_fallback_list(category)
                     /\ success' = FALSE
                     /\ errors' = <<"Primary " \o model_name \o ": " \o r.msg>>
                     /\ fb_i' = 1
                     /\ pc' = "fallback"
                     /\ UNCHANGED predictions
    /\ UNCHANGED <<connected, sales_data, forecast_results, request, df, category,
                   feature_cols, future_df, model_name, result, response,
                   sel_vars, ev_vars,
                   ad_vars, fe_vars, other>>

\* the break forgotten: the loop goes on after a success
AfterFallback_NoBreak(ok, i) == [pc |-> "fallback", fb_i |-> i + 1]

\* where the loop over fallback_models goes after the attempt at position i:
\* break on success, the next position otherwise
AfterFallback(ok, i) ==
    IF ok THEN [pc |-> "actuals", fb_i |-> i] ELSE [pc |-> "fallback", fb_i |-> i + 1]

\* the loop walking the list from its end
FallbackAt_Reversed(models, i) == models[Len(models) + 1 - i]

\* the fallback the loop hands to _run_model at position i
FallbackAt(models, i) == models[i]

\* the fallback annotation left out
FallbackLabel_Plain(fallback) == fallback

\* f"{fallback} (fallback)"
FallbackLabel(fallback) == fallback \o " (fallback)"

\* only the last error reported
AllModelsFailedDetail_LastOnly(errs) ==
    "All models failed. Details: " \o errs[Len(errs)]

\* f"All models failed. Details: {'; '.join(errors)}"
AllModelsFailedDetail(errs) == "All models failed. Details: " \o Join(errs, "; ")

\* one iteration of the loop over fallback_models
TryFallback ==
    /\ pc = "fallback"
    /\ fb_i <= Len(fallback_models)
    /\ LET fallback == FallbackAt(fallback_models, fb_i)
       IN  \E o \in LibOutcomes(fallback) :
           \E r \in {_run_model(fallback, df, feature_cols, future_df,
                                 request.year, o)} :
             LET next == AfterFallback(r.ok, fb_i)
             IN  /\ attempts' = Append(attempts, Attempt("Fallback", fallback, r))
                 /\ pc' = next.pc
                 /\ fb_i' = next.fb_i
                 /\ IF r.ok
                    THEN /\ predictions' = r.val
                         /\ model_name' = FallbackLabel(fallback)
                         /\ success' = TRUE
                         /\ UNCHANGED errors
                    ELSE /\ errors' = Append(errors,
                                "Fallback " \o fallback \o ": " \o r.msg)
                         /\ UNCHANGED <<predictions, model_name, success>>
    /\ UNCHANGED <<connected, sales_data, forecast_results, request, df, category,
                   feature_cols, future_df, fallback_models, result, response,
                   sel_vars, ev_vars,
                   ad_vars, fe_vars, other>>

\* a failed walk also removing the key's stored result
EndOfFallbacks_DropsStale ==
    /\ pc = "fallback"
    /\ fb_i > Len(fallback_models)
    /\ IF ~success
       THEN /\ Fails(500, AllModelsFailedDetail(errors))
            /\ forecast_results' =
                 SelectSeq(forecast_results,
                           LAMBDA d : ~(/\ d.product = request.product
                                        /\ d.year = request.year))
       ELSE pc' = "actuals" /\ UNCHANGED <<response, forecast_results>>
    /\ UNCHANGED <<connected, sales_data, request, df, category,
                   feature_cols, future_df, model_name, fallback_models, fb_i,
                   success, errors, predictions, result, attempts, sel_vars, ev_vars,
                   ad_vars, fe_vars, other>>

\* the end of the loop: if not success, raise HTTPException(500, ...)
EndOfFallbacks ==
    /\ pc = "fallback"
    /\ fb_i > Len(fallback_models)
    /\ IF ~success
       THEN Fails(500, AllModelsFailedDetail(errors))
       ELSE pc' = "actuals" /\ UNCHANGED response
    /\ UNCHANGED <<connected, sales_data, forecast_results, request, df, category,
                   feature_cols, future_df, model_name, fallback_models, fb_i,
                   success, errors, predictions, result, attempts, sel_vars, ev_vars,
                   ad_vars, fe_vars, other>>

\* the year filter forgotten: a month's value is that of the last document
\* dated in that month of any year
ActualValues_AnyYear(docs, year) ==
    LET OfMonth(m) == {i \in 1..Len(docs) : docs[i].date.month = m}
        Last(m) == CHOOSE i \in OfMonth(m) : \A j \in OfMonth(m) : j <= i
    IN  [m \in 1..12 |->
            IF OfMonth(m) = {} THEN Nothing ELSE Some(docs[Last(m)].units_sold)]

\* actual_by_month and the list of the 12 actual values, from the documents
\* of the product sorted by date: a month's value is that of the last
\* document dated in that month of the year
ActualValues(docs, year) ==
    LET OfMonth(m) ==
            {i \in 1..Len(docs) : docs[i].date.year = year /\ docs[i].date.month = m}
        Last(m) == CHOOSE i \in OfMonth(m) : \A j \in OfMonth(m) : j <= i
    IN  [m \in 1..12 |->
            IF OfMonth(m) = {} THEN Nothing ELSE Some(docs[Last(m)].units_sold)]

\* the actual values, the metrics and the ForecastResult
BuildResult ==
    /\ pc = "actuals"
    /\ \E actual \in {ActualValues(FindSales(sales_data, request.product),
                                   request.year)} :
       \E metrics_dict \in {calculate_metrics(actual, predictions)} :
         LET metrics == IF metrics_dict.MAE # 0
                           \/ \E m \in 1..12 : actual[m] # Nothing
                        THEN Some(metrics_dict)
                        ELSE Nothing
         IN  result' = Some([product |-> request.product,
                             category |-> category,
                             model_used |-> model_name,
                             months |-> MONTH_LABELS,
                             actual |-> actual,
                             predicted |-> [i \in 1..Len(predictions) |->
                                              Round2(predictions[i])],
                             metrics |-> metrics,
                             features_used |-> feature_cols])
    /\ pc' = "persist"
    /\ UNCHANGED <<connected, sales_data, forecast_results, request, df, category,
                   feature_cols, future_df, model_name, fallback_models, fb_i,
                   success, errors, predictions, response, attempts, sel_vars, ev_vars,
                   ad_vars, fe_vars, other>>

\* upsert_document("forecast_results", ...) and the response
Persist ==
    /\ pc = "persist"
    /\ forecast_results' =
         upsert_document(forecast_results,
                         [product |-> request.product, year |-> request.year],
                         result[1])
    /\ response' = [status |-> 200, detail |-> "success", result |-> result]
    /\ pc' = "done"
    /\ UNCHANGED <<connected, sales_data, request, df, category, feature_cols,
                   future_df, model_name, fallback_models, fb_i, success, errors,
                   predictions, result, attempts, sel_vars, ev_vars,
                   ad_vars, fe_vars, other>>

(***************************************************************************)
(* The selector functions on raw category strings.  A raw string is a word *)
(* in one of four letter-case variants with whitespace around it.          *)
(***************************************************************************)
W_unknown_drug == <<117, 110, 107, 110, 111, 119, 110, 32, 100, 114, 117, 103>>
W_other == <<111, 116, 104, 101, 114>>
W_antibiotic == <<97, 110, 116, 105, 98, 105, 111, 116, 105, 99>>
W_cefixim == <<99, 101, 102, 105, 120, 105, 109>>
W_ce_fixime == <<99, 101, 32, 102, 105, 120, 105, 109, 101>>

\* lower-case words: every key of the classifier table, and words that are no key
Words ==
    (DOMAIN CATEGORY_TYPE_MAP)
    \cup {W_unknown_drug, W_other, W_antibiotic, W_cefixim, W_ce_fixime, << >>}

CaseKinds == {"lower", "upper", "capitalized", "alternating"}

Recase(w, kind) ==
    [i \in 1..Len(w) |->
        CASE kind = "lower" -> w[i]
          [] kind = "upper" -> UpperChar(w[i])
          [] kind = "capitalized" -> IF i = 1 THEN UpperChar(w[i]) ELSE w[i]
          [] kind = "alternating" -> IF i % 2 = 0 THEN UpperChar(w[i]) ELSE w[i]]

PadChars == {32, 9}

RECURSIVE PadsOfLen(_)
PadsOfLen(n) ==
    IF n = 0 THEN {<< >>}
    ELSE {<<c>> \o p : c \in PadChars, p \in PadsOfLen(n - 1)}

Pads == UNION {PadsOfLen(n) : n \in 0..MaxPad}

\* every value the request's model field, or a direct caller, can name
Overrides == ValidModels \cup {"auto", "lstm", "Prophet"}

NoSelIn ==
    [word |-> None, kind |-> "lower", left |-> << >>, right |-> << >>,
     raw |-> None, override |-> "auto"]

NoSelOut == [done |-> FALSE, type |-> "", model |-> Ok(""), fallbacks |-> << >>]

\* no call of calculate_metrics, no call of an adapter
NoEvIn == [actual |-> << >>, predicted |-> << >>]

NoEvOut == [done |-> FALSE, val |-> [MAE |-> 0, RMSE |-> 0, MAPE |-> ""]]

NoAdIn == [rows |-> 0]

NoAdOut == [done |-> FALSE]

HarnessIdle ==
    /\ ev_in = NoEvIn
    /\ ev_out = NoEvOut
    /\ ad_in = NoAdIn
    /\ ad_out = NoAdOut

InitSel ==
    /\ sel_in \in
         {[word |-> w, kind |-> k, left |-> l, right |-> r,
           raw |-> l \o Recase(w, k) \o r, override |-> o] :
             w \in Words, k \in CaseKinds, l \in Pads, r \in Pads, o \in Overrides}
         \cup {[word |-> None, kind |-> "lower", left |-> << >>, right |-> << >>,
                raw |-> None, override |-> o] : o \in Overrides}
    /\ sel_out = NoSelOut
    /\ connected = FALSE
    /\ sales_data = << >>
    /\ forecast_results = << >>
    /\ RunIdle
    /\ FeIdle
    /\ HarnessIdle

ApplySelector ==
    /\ ~sel_out.done
    /\ sel_out' = [done |-> TRUE,
                   type |-> get_category_type(sel_in.raw),
                   model |-> select_model(sel_in.raw, sel_in.override),
                   fallbacks |-> get_fallback_list(sel_in.raw)]
    /\ UNCHANGED <<sel_in, connected, sales_data, forecast_results, run_vars,
                   ev_vars, ad_vars, fe_vars, other>>

NextSel == ApplySelector

SpecSel == InitSel /\ [][NextSel]_vars

(***************************************************************************)
(* calculate_metrics on lists of up to MaxList entries: an actual entry is *)
(* None, NaN or a number of units; a prediction is in thousandths.         *)
(***************************************************************************)
MaxList == 3

ActualEntries == {Nothing, NaN, Some(0), Some(10), Some(20)}

PredictedEntries == {5000, 12000, 18000}

ListsOver(S) == UNION {[1..n -> S] : n \in 0..MaxList}

InitMetrics ==
    /\ ev_in \in {[actual |-> a, predicted |-> p] :
                    a \in ListsOver(ActualEntries), p \in ListsOver(PredictedEntries)}
    /\ ev_out = NoEvOut
    /\ ad_in = NoAdIn
    /\ ad_out = NoAdOut
    /\ sel_in = [word |-> None, kind |-> "lower", left |-> << >>, right |-> << >>,
                 raw |-> None, override |-> "auto"]
    /\ sel_out = NoSelOut
    /\ connected = FALSE
    /\ sales_data = << >>
    /\ forecast_results = << >>
    /\ RunIdle
    /\ FeIdle

ApplyMetrics ==
    /\ ~ev_out.done
    /\ ev_out' = [done |-> TRUE,
                  val |-> calculate_metrics(ev_in.actual, ev_in.predicted)]
    /\ UNCHANGED <<ev_in, connected, sales_data, forecast_results, run_vars,
                   sel_vars, ad_vars, fe_vars, other>>

NextMetrics == ApplyMetrics

SpecMetrics == InitMetrics /\ [][NextMetrics]_vars

(***************************************************************************)
(* The four adapters called directly, on a series of n monthly rows from   *)
(* January of year y0, with and without a future feature table.            *)
(***************************************************************************)
AdapterRowCounts == {0, 11, 12, 13, 17, 18, 19, 23, 24, 25, MaxRows}

AdapterStartYears == {2023, 2024}

AdapterYear == 2025

InitAdapters ==
    /\ ad_in \in
         {[category |-> cat,
           df |-> Series("p1", cat, y0, n),
           forecast_year |-> AdapterYear,
           future_features_df |->
               IF has_future
               THEN Some(build_future_features(
                             [year |-> AdapterYear - 1, month |-> 12], 12, << >>))
               ELSE Nothing,
           prophet |-> op, xgboost |-> ox, sarimax |-> os] :
             cat \in DataCategories, y0 \in AdapterStartYears,
             n \in AdapterRowCounts, has_future \in BOOLEAN,
             op \in FitOutcomes, ox \in FitOutcomes, os \in SarimaxOutcomes}
    /\ ad_out = NoAdOut
    /\ ev_in = NoEvIn
    /\ ev_out = NoEvOut
    /\ sel_in = [word |-> None, kind |-> "lower", left |-> << >>, right |-> << >>,
                 raw |-> None, override |-> "auto"]
    /\ sel_out = NoSelOut
    /\ connected = FALSE
    /\ sales_data = << >>
    /\ forecast_results = << >>
    /\ RunIdle
    /\ FeIdle

ApplyAdapters ==
    /\ ~ad_out.done
    /\ \E cols \in {build_features_cols(ad_in.category)} :
         ad_out' =
           [done |-> TRUE,
            prophet |->
                train_and_predict_prophet(ad_in.df, ad_in.forecast_year,
                                          ad_in.prophet),
            xgboost |->
                train_and_predict_xgboost(ad_in.df, cols, ad_in.forecast_year,
                                          ad_in.future_features_df, ad_in.xgboost),
            sarimax |->
                train_and_predict_sarimax(ad_in.df, ad_in.forecast_year, cols,
                                          ad_in.sarimax),
            hybrid |->
                train_and_predict_hybrid(ad_in.df, cols, ad_in.forecast_year,
                                         ad_in.future_features_df,
                                         [prophet |-> ad_in.prophet,
                                          xgboost |-> ad_in.xgboost])]
    /\ UNCHANGED <<ad_in, connected, sales_data, forecast_results, run_vars,
                   sel_vars, ev_vars, fe_vars, other>>

NextAdapters == ApplyAdapters

SpecAdapters == InitAdapters /\ [][NextAdapters]_vars

(***************************************************************************)
(* The feature builders called as run_forecast calls them, on the          *)
(* documents of one product in stored order: build_features on all of      *)
(* them, then build_future_features for twelve months, seeded with the     *)
(* last twelve units_sold values before the forecast year, one pass of its *)
(* loop at a time.                                                         *)
(***************************************************************************)
MaxSeries == 16

FeatureRowCounts == {0, 1, 2, 3, 4, 7, 13, 15, MaxSeries}

InitFeatures ==
    /\ fe_in \in
         {[df |-> IF stored THEN StoredOrder(Series("p1", K_cefixime, 2024, n))
                  ELSE Series("p1", K_cefixime, 2024, n),
           forecast_year |-> y] :
             n \in FeatureRowCounts, stored \in BOOLEAN, y \in Years}
    /\ fe_out = NoFeOut
    /\ HarnessIdle
    /\ sel_in = NoSelIn
    /\ sel_out = NoSelOut
    /\ connected = FALSE
    /\ sales_data = << >>
    /\ forecast_results = << >>
    /\ RunIdle

\* feat_df, _ = build_features(df, category)
ApplyBuildFeatures ==
    /\ ~fe_out.built
    /\ fe_out' = [built |-> TRUE, started |-> FALSE,
                  feat_df |-> build_features(fe_in.df)]
    /\ UNCHANGED <<fe_in, connected, sales_data, forecast_results, run_vars,
                   sel_vars, ev_vars, ad_vars, other>>

\* train_df, last_date, last_values, and build_future_features up to its loop
StartFutureFeatures ==
    /\ fe_out.built
    /\ ~fe_out.started
    /\ LET feat_df == fe_out.feat_df
           train_df == SelectSeq(feat_df,
                                 LAMBDA r : r.date.year < fe_in.forecast_year)
           units == [i \in 1..Len(train_df) |-> train_df[i].units_sold]
           last_values == TailN(units, 12)
           last_date == IF train_df # << >>
                        THEN MaxDate(train_df, [i \in 1..Len(train_df) |-> i])
                        ELSE [year |-> fe_in.forecast_year - 1, month |-> 12]
       IN  fe_out' = [built |-> TRUE, started |-> TRUE, feat_df |-> feat_df,
                      n_train |-> Len(train_df),
                      last_date |-> last_date, n_months |-> 12,
                      last_known_values |-> last_values,
                      rows |-> << >>,
                      history |-> HistorySeed(last_values)]
    /\ UNCHANGED <<fe_in, connected, sales_data, forecast_results, run_vars,
                   sel_vars, ev_vars, ad_vars, other>>

\* for i, dt in enumerate(future_dates): one pass
FutureRow ==
    /\ fe_out.started
    /\ Len(fe_out.rows) < fe_out.n_months
    /\ LET i == Len(fe_out.rows) + 1
           row == future_row(DateOf(MonthNo(fe_out.last_date) + i), i,
                             Len(fe_out.last_known_values), fe_out.history)
       IN  fe_out' = [fe_out EXCEPT !.rows = Append(@, row),
                                    !.history = history_append(@, row)]
    /\ UNCHANGED <<fe_in, connected, sales_data, forecast_results, run_vars,
                   sel_vars, ev_vars, ad_vars, other>>

NextFeatures == ApplyBuildFeatures \/ StartFutureFeatures \/ FutureRow

SpecFeatures == InitFeatures /\ [][NextFeatures]_vars

(***************************************************************************)
(* The service: one run_forecast invocation against the stored data.       *)
(***************************************************************************)
Init ==
    /\ connected = FALSE
    /\ \E cat \in DataCategories, y0 \in StartYears, n \in RowCounts :
         sales_data = StoredOrder(Series("p1", cat, y0, n))
    /\ forecast_results \in {<< >>, <<EarlierResult>>}
    /\ RunIdle
    /\ FeIdle
    /\ sel_in = NoSelIn
    /\ sel_out = NoSelOut
    /\ HarnessIdle

Next ==
    \/ Connect
    \/ \E p \in Products, c \in RequestCategories, m \in RequestModels, y \in Years :
         Request(p, c, m, y)
    \/ LoadProductData
    \/ TrainPrimary
    \/ TryFallback
    \/ EndOfFallbacks
    \/ BuildResult
    \/ Persist

Spec == Init /\ [][Next]_vars

(***************************************************************************)
(* routes/data_routes.py: the service with POST /data/upload, starting     *)
(* from an empty sales_data collection.  A file is a list of records.      *)
(***************************************************************************)
MaxDocs == 24

\* the files a client uploads: one product's twelve months of a year
UploadFiles ==
    {Series("p1", <<32>> \o K_cefixime, y0, 12) : y0 \in {2023, 2024}}

\* database/mongo.py insert_many_documents: the documents are added
insert_many_documents(coll, documents) == coll \o documents

\* upload_sales_data: the connection check, the clean-up of the records and
\* the insert (the handler's response is not kept)
Upload(file) ==
    /\ pc \notin {"primary", "fallback"}
    /\ connected
    /\ Len(sales_data) + Len(file) <= MaxDocs
    /\ LET documents ==
             [i \in 1..Len(file) |->
                 [file[i] EXCEPT !.product_category = Strip(@)]]
       IN  sales_data' = insert_many_documents(sales_data, documents)
    /\ UNCHANGED <<connected, forecast_results, run_vars, sel_vars, ev_vars,
                   ad_vars, fe_vars, other>>

InitUpload ==
    /\ connected = FALSE
    /\ sales_data = << >>
    /\ forecast_results = << >>
    /\ RunIdle
    /\ FeIdle
    /\ sel_in = NoSelIn
    /\ sel_out = NoSelOut
    /\ HarnessIdle

NextUpload ==
    \/ \E file \in UploadFiles : Upload(file)
    \/ Next

SpecUpload == InitUpload /\ [][NextUpload]_vars

(***************************************************************************)
(* Two run_forecast invocations on one event loop, for different products. *)
(* The variables of run_forecast hold the locals of the invocation that is *)
(* running, other those of the one that is not.  The loop changes from one *)
(* to the other where the running one awaits (the load of the series, the  *)
(* load of the actual values, the upsert), has not started or has ended;   *)
(* the model attempts are synchronous.                                     *)
(***************************************************************************)
\* the locals of the running invocation
Context ==
    [pc |-> pc, request |-> request, df |-> df, category |-> category,
     feature_cols |-> feature_cols, future_df |-> future_df,
     model_name |-> model_name, fallback_models |-> fallback_models,
     fb_i |-> fb_i, success |-> success, errors |-> errors,
     predictions |-> predictions, result |-> result, response |-> response,
     attempts |-> attempts]

SuspensionPoints == {"idle", "load", "actuals", "persist", "done", "error"}

Switch ==
    /\ pc \in SuspensionPoints
    /\ other' = Context
    /\ pc' = other.pc
    /\ request' = other.request
    /\ df' = other.df
    /\ category' = other.category
    /\ feature_cols' = other.feature_cols
    /\ future_df' = other.future_df
    /\ model_name' = other.model_name
    /\ fallback_models' = other.fallback_models
    /\ fb_i' = other.fb_i
    /\ success' = other.success
    /\ errors' = other.errors
    /\ predictions' = other.predictions
    /\ result' = other.result
    /\ response' = other.response
    /\ attempts' = other.attempts
    /\ UNCHANGED <<connected, sales_data, forecast_results, sel_vars, ev_vars,
                   ad_vars, fe_vars>>

\* the models the two requests name
ConcurrentModels == {"auto", "xgboost"}

InitConcurrent ==
    /\ connected = FALSE
    /\ sales_data =
         StoredOrder(Series("p1", [i \in 1..Len(K_cefixime) |->
                                      UpperChar(K_cefixime[i])], 2023, 24)
                     \o Series("p2", K_omeprazole, 2024, 12))
    /\ forecast_results \in {<< >>, <<EarlierResult>>}
    /\ RunIdle
    /\ FeIdle
    /\ sel_in = NoSelIn
    /\ sel_out = NoSelOut
    /\ HarnessIdle

NextConcurrent ==
    \/ Connect
    \/ \E p \in Products, m \in ConcurrentModels :
         /\ p # other.request.product
         /\ Request(p, None, m, 2025)
    \/ LoadProductData
    \/ TrainPrimary
    \/ TryFallback
    \/ EndOfFallbacks
    \/ BuildResult
    \/ Persist
    \/ Switch

SpecConcurrent == InitConcurrent /\ [][NextConcurrent]_vars

(***************************************************************************)
(* Properties of the selector functions, checked under SpecSel.            *)
(***************************************************************************)
LogicalTypes == {"antibiotic", "gastro", "acute", "chronic", "other"}

\* whether the word a raw string was made from is a key of the classifier table
IsKey(word) == word \in DOMAIN CATEGORY_TYPE_MAP

\* C4: with model = auto the model select_model returns is decided by the
\* logical type alone, antibiotic -> sarimax, gastro -> prophet,
\* acute -> xgboost, chronic -> prophet, other -> xgboost; whatever the raw
\* category and the override, a returned name is one of the four model
\* names, never "auto".
C4_AutoModelByType ==
    sel_out.done =>
        /\ sel_in.override = "auto" =>
             /\ sel_out.model.ok
             /\ sel_out.model.val =
                  (CASE sel_out.type = "antibiotic" -> "sarimax"
                     [] sel_out.type = "gastro" -> "prophet"
                     [] sel_out.type = "acute" -> "xgboost"
                     [] sel_out.type = "chronic" -> "prophet"
                     [] sel_out.type = "other" -> "xgboost")
        /\ sel_out.model.ok =>
             sel_out.model.val \in {"prophet", "xgboost", "sarimax", "hybrid"}

C4_Witness ==
    /\ sel_out.done
    /\ sel_in.override = "auto"
    /\ sel_in.word = K_escitalopram
    /\ sel_in.kind = "upper"
    /\ sel_in.right # << >>
    /\ sel_out.type = "chronic"
    /\ sel_out.model.val = "prophet"

\* C6 (as amended): the fallback list is decided by the logical type:
\* antibiotic [prophet, xgboost], gastro [hybrid, xgboost], acute
\* [hybrid, prophet], chronic [sarimax, xgboost], other [prophet, sarimax].  A
\* raw category that matches no key of the classifier table has type other
\* and so gets [prophet, sarimax]; the default [prophet, xgboost] is never
\* what an unmapped category gets.
C6_FallbackByType ==
    sel_out.done =>
        /\ sel_out.fallbacks =
             (CASE sel_out.type = "antibiotic" -> <<"prophet", "xgboost">>
                [] sel_out.type = "gastro" -> <<"hybrid", "xgboost">>
                [] sel_out.type = "acute" -> <<"hybrid", "prophet">>
                [] sel_out.type = "chronic" -> <<"sarimax", "xgboost">>
                [] sel_out.type = "other" -> <<"prophet", "sarimax">>)
        /\ ~IsKey(sel_in.word) => sel_out.fallbacks = <<"prophet", "sarimax">>
        /\ sel_in.word = K_cefixime => sel_out.fallbacks = <<"prophet", "xgboost">>

C6_Witness ==
    /\ sel_out.done
    /\ sel_in.word = W_unknown_drug
    /\ sel_out.type = "other"
    /\ sel_out.fallbacks = <<"prophet", "sarimax">>

\* C6 as stated: antibiotic falls back to [prophet, xgboost], and a raw
\* category matching no key of the classifier table gets the default list
\* [prophet, xgboost].
C6_Original ==
    sel_out.done =>
        /\ sel_in.word = K_cefixime => sel_out.fallbacks = <<"prophet", "xgboost">>
        /\ ~IsKey(sel_in.word) => sel_out.fallbacks = <<"prophet", "xgboost">>

\* C7: get_category_type is total with values in {antibiotic, gastro, acute,
\* chronic, other}; the type of a raw string is that of the key it equals
\* after lower-casing and trimming, whatever its letter case and the
\* whitespace around it ("Cefixime" -> antibiotic), and other for every
\* string that equals no key, the empty string and None included
\* ("unknown drug" -> other).
C7_ClassifierTotal ==
    sel_out.done =>
        /\ sel_out.type \in LogicalTypes
        /\ sel_out.type =
             (IF IsKey(sel_in.word) THEN CATEGORY_TYPE_MAP[sel_in.word] ELSE "other")
        /\ sel_in.word = K_cefixime => sel_out.type = "antibiotic"
        /\ sel_in.word \in {W_unknown_drug, << >>, None} => sel_out.type = "other"

C7_Witness ==
    /\ sel_out.done
    /\ sel_in.word = K_cefixime
    /\ sel_in.kind = "capitalized"
    /\ sel_in.left # << >>
    /\ sel_in.right # << >>
    /\ sel_out.type = "antibiotic"

(***************************************************************************)
(* Properties of run_forecast, checked under Spec.                         *)
(***************************************************************************)
\* the invocation ended with a ForecastResult stored and returned
Done == pc = "done"

\* the invocation ended with "All models failed"
AllFailed == pc = "error" /\ attempts # << >>

\* the training rows of the loaded series
TrainingCount == Len(TrainRows(df, request.year))

\* the position of the attempt that succeeded
OkAttempt == CHOOSE j \in 1..Len(attempts) : attempts[j].ok

\* C1: a step that makes attempt number k finds every earlier attempt failed;
\* the first attempt is the primary model, and for k > 1 the attempt is
\* entry k - 1 of the category's fallback list.  So fallbacks are tried in
\* list order, only after the primary failed, and nothing is tried after a
\* success.
C1_FallbackOrder ==
    [][Len(attempts') = Len(attempts) + 1 =>
         LET k == Len(attempts')
         IN  /\ \A j \in 1..Len(attempts) : ~attempts[j].ok
             /\ \A j \in 1..Len(attempts) : attempts'[j] = attempts[j]
             /\ k = 1 =>
                  /\ attempts'[1].role = "Primary"
                  /\ attempts'[1].model = select_model(category, request.model).val
             /\ k > 1 =>
                  /\ attempts'[k].role = "Fallback"
                  /\ k - 1 <= Len(get_fallback_list(category))
                  /\ attempts'[k].model = get_fallback_list(category)[k - 1]]_vars

C1_Witness ==
    /\ Len(attempts) = 3
    /\ ~attempts[1].ok
    /\ ~attempts[2].ok
    /\ attempts[3].ok
    /\ attempts[2].model # attempts[3].model

\* C2 (as amended): in Done, if the primary succeeded model_used is its plain
\* name; if fallback f was the first to succeed, model_used is "f (fallback)";
\* the stored predictions are the values the successful adapter returned,
\* each rounded to two decimals.  For an antibiotic category with fewer than
\* 24 training rows, model = auto and a succeeding prophet fallback,
\* model_used is "prophet (fallback)".
C2_ModelUsed ==
    Done =>
        LET k == OkAttempt
            r == result[1]
        IN  /\ \A j \in 1..(k - 1) : ~attempts[j].ok /\ attempts[j].returned = << >>
            /\ k = 1 => r.model_used = select_model(category, request.model).val
            /\ k > 1 =>
                 r.model_used = get_fallback_list(category)[k - 1] \o " (fallback)"
            /\ Len(r.predicted) = Len(attempts[k].returned)
            /\ \A i \in 1..Len(r.predicted) :
                 /\ r.predicted[i] % 10 = 0
                 /\ Abs(r.predicted[i] - attempts[k].returned[i]) <= 5
            /\ \E i \in 1..Len(forecast_results) :
                 /\ forecast_results[i].product = request.product
                 /\ forecast_results[i].year = request.year
                 /\ forecast_results[i].model_used = r.model_used
                 /\ forecast_results[i].predicted = r.predicted
            /\ (/\ get_category_type(category) = "antibiotic"
                /\ request.model = "auto"
                /\ TrainingCount < 24
                /\ k = 2) => r.model_used = "prophet (fallback)"

C2_Witness ==
    /\ Done
    /\ get_category_type(category) = "antibiotic"
    /\ request.model = "auto"
    /\ TrainingCount < 24
    /\ result[1].model_used = "prophet (fallback)"
    /\ \E i \in 1..12 : result[1].predicted[i] # attempts[2].returned[i]

\* C2 as stated: in Done the stored predictions are exactly the values the
\* successful adapter returned.
C2_Original ==
    Done =>
        /\ OkAttempt = 1 =>
             result[1].model_used = select_model(category, request.model).val
        /\ OkAttempt > 1 =>
             result[1].model_used = attempts[OkAttempt].model \o " (fallback)"
        /\ result[1].predicted = attempts[OkAttempt].returned

\* the message entry of attempt j
C3_Entry(j) ==
    (IF j = 1 THEN "Primary " ELSE "Fallback ")
        \o attempts[j].model \o ": " \o attempts[j].msg

RECURSIVE C3_Entries(_)
C3_Entries(k) ==
    IF k = 1 THEN C3_Entry(1) ELSE C3_Entries(k - 1) \o "; " \o C3_Entry(k)

\* C3: when the primary and every fallback of the list have failed, the
\* invocation fails with one error whose message holds one entry per attempt
\* in attempt order, the primary first, each naming the model and its error
\* text; no failure of a single model reaches the caller on its own.
C3_AllModelsFailed ==
    /\ (/\ attempts # << >>
        /\ \A j \in 1..Len(attempts) : ~attempts[j].ok
        /\ Len(attempts) = 1 + Len(get_fallback_list(category))
        /\ pc # "fallback")
       => /\ pc = "error"
          /\ response.status = 500
          /\ response.detail =
               "All models failed. Details: " \o C3_Entries(Len(attempts))
    /\ (attempts # << >> /\ response.status \notin {0, 200})
       => /\ Len(attempts) = 1 + Len(get_fallback_list(category))
          /\ \A j \in 1..Len(attempts) : ~attempts[j].ok
          /\ attempts[1].model = select_model(category, request.model).val
          /\ \A j \in 2..Len(attempts) :
               attempts[j].model = get_fallback_list(category)[j - 1]
          /\ response.detail =
               "All models failed. Details: " \o C3_Entries(Len(attempts))

C3_Witness ==
    /\ AllFailed
    /\ Len(attempts) = 3
    /\ attempts[1].msg # attempts[2].msg
    /\ attempts[2].msg # attempts[3].msg

\* C5: a request naming one of the four models has that model trained first,
\* whatever the category; a name outside the closed set (and not auto) is
\* refused at once: select_model raises for it, the invocation ends in an
\* error with nothing trained, no fallback tried and nothing stored.
C5_ExplicitModel ==
    /\ (request.model \in {"prophet", "xgboost", "sarimax", "hybrid"}
        /\ attempts # << >>)
       => /\ attempts[1].model = request.model
          /\ attempts[1].role = "Primary"
    /\ \A name \in {"lstm", "Prophet", "arima"} :
         /\ ~select_model(category, name).ok
         /\ select_model(category, name).exc = "ValueError"
    /\ (pc # "idle"
        /\ request.model \notin {"prophet", "xgboost", "sarimax", "hybrid", "auto"})
       => /\ pc = "error"
          /\ response.status \in {422, 500}
          /\ attempts = << >>
          /\ fallback_models = << >>
          /\ result = Nothing
          /\ forecast_results \in {<< >>, <<EarlierResult>>}

C5_Witness ==
    /\ pc = "error"
    /\ connected
    /\ request.model = "lstm"
    /\ request.product = "p1"
    /\ attempts = << >>

\* C8 (as amended): for an antibiotic category (mapped to sarimax) with at
\* least 24 rows dated before target_year and model = auto, no attempt fails
\* its row check: the invocation ends in AllFailed only when the library
\* raised in each of the three attempts, and otherwise in Done with exactly
\* 12 predictions, all non-negative; when sarimax's fit and forecast do not
\* raise, model_used is sarimax.
C8_SarimaxEnoughRows ==
    (/\ get_category_type(category) = "antibiotic"
     /\ request.model = "auto"
     /\ df # << >>
     /\ TrainingCount >= 24)
    => /\ \A j \in 1..Len(attempts) : ~attempts[j].ok => attempts[j].fits # << >>
       /\ attempts # << >> => attempts[1].model = "sarimax"
       /\ AllFailed => Len(attempts) = 3
       /\ pc = "error" => AllFailed
       /\ Done =>
            /\ Len(result[1].predicted) = 12
            /\ \A i \in 1..12 : result[1].predicted[i] >= 0
            /\ attempts[1].ok => result[1].model_used = "sarimax"

C8_Witness ==
    /\ get_category_type(category) = "antibiotic"
    /\ request.model = "auto"
    /\ TrainingCount = 24
    /\ Done
    /\ result[1].model_used = "sarimax"

\* C8 as stated: for a category mapped to sarimax and a history of at least
\* 24 months, run_forecast with model = auto ends in Done, not AllFailed, with
\* exactly 12 non-negative predictions.
C8_Original ==
    (/\ get_category_type(category) = "antibiotic"
     /\ request.model = "auto"
     /\ Len(df) >= 24)
    => /\ ~AllFailed
       /\ Done =>
            /\ Len(result[1].predicted) = 12
            /\ \A i \in 1..12 : result[1].predicted[i] >= 0

\* the ForecastResult records in existence: the one built, the one returned,
\* the ones stored
ForecastResultsInExistence ==
    {result[i] : i \in 1..Len(result)}
    \cup {response.result[i] : i \in 1..Len(response.result)}
    \cup {forecast_results[i] : i \in 1..Len(forecast_results)}

\* C9: every ForecastResult, whichever adapter supplied the predictions, has
\* exactly 12 month labels, 12 actual entries (each a number or null) and 12
\* predicted values, every one of them >= 0.
C9_ResultShape ==
    \A r \in ForecastResultsInExistence :
        /\ Len(r.months) = 12
        /\ Len(r.actual) = 12
        /\ \A m \in 1..12 :
             r.actual[m] = Nothing \/ (Len(r.actual[m]) = 1 /\ r.actual[m][1] \in Int)
        /\ Len(r.predicted) = 12
        /\ \A i \in 1..12 : r.predicted[i] >= 0

C9_Witness ==
    /\ Done
    /\ Len(attempts) = 2
    /\ attempts[2].model = "hybrid"
    /\ result[1].predicted[1] = 0
    /\ result[1].predicted[12] > 0
    /\ \E m \in 1..12 : result[1].actual[m] # Nothing
    /\ forecast_results # << >>

\* C10: every fit an adapter starts is a fit on rows dated in calendar years
\* strictly below target_year, also when the loaded series holds rows of
\* target_year or later.
C10_TrainBeforeTargetYear ==
    \A j \in 1..Len(attempts) :
        \A f \in 1..Len(attempts[j].fits) :
            \A d \in attempts[j].fits[f].train : d.year < request.year

C10_Witness ==
    /\ \E i \in 1..Len(df) : df[i].date.year >= request.year
    /\ \E j \in 1..Len(attempts) :
         /\ attempts[j].model = "hybrid"
         /\ Len(attempts[j].fits) = 2
         /\ attempts[j].fits[1].train # {}
         /\ attempts[j].fits[2].train # {}
    /\ \E j \in 1..Len(attempts) :
         /\ attempts[j].model = "sarimax"
         /\ Len(attempts[j].fits) = 2
         /\ attempts[j].fits[2].train # {}

(***************************************************************************)
(* Properties of calculate_metrics, checked under SpecMetrics.             *)
(***************************************************************************)
\* the positions zip(actual, predicted) pairs up
ZipPositions ==
    1..(IF Len(ev_in.actual) <= Len(ev_in.predicted)
        THEN Len(ev_in.actual) ELSE Len(ev_in.predicted))

\* the paired positions whose actual is a number
NumberPositions == {i \in ZipPositions : ev_in.actual[i] \notin {Nothing, NaN}}

\* C11: calculate_metrics returns exactly MAE 0, RMSE 0, MAPE "N/A" whenever
\* no pair is kept: for empty inputs, and for an actual list whose paired
\* entries are all None (or NaN), whatever the predicted values.
C11_EmptyMetrics ==
    (ev_out.done /\ NumberPositions = {})
    => ev_out.val = [MAE |-> 0, RMSE |-> 0, MAPE |-> "N/A"]

C11_Witness ==
    /\ ev_out.done
    /\ ev_in.actual = <<Nothing, NaN, Nothing>>
    /\ ev_in.predicted = <<12000, 18000, 5000>>
    /\ ev_out.val.MAPE = "N/A"
    /\ ev_out.val.MAE = 0

\* the sum of f over the index set S
SumOver(f, S) ==
    LET sum[T \in SUBSET S] ==
            IF T = {} THEN 0
            ELSE LET x == CHOOSE x \in T : TRUE IN f[x] + sum[T \ {x}]
    IN  sum[S]

\* the input with the pairs of zero actual taken out
WithoutZeroActuals ==
    LET Keep(i) == i \in ZipPositions /\ ev_in.actual[i] # Some(0)
        idx == SelectSeq([i \in 1..Len(ev_in.actual) |-> i], Keep)
    IN  [actual |-> [j \in 1..Len(idx) |-> ev_in.actual[idx[j]]],
         predicted |-> [j \in 1..Len(idx) |-> ev_in.predicted[idx[j]]]]

\* C12: actual and predicted are paired by position and the pairs with a
\* null actual dropped; MAE and RMSE are the mean absolute error and the
\* root of the mean squared error over all kept pairs, zero actuals
\* included, rounded to two decimals; MAPE is computed over the kept pairs
\* with a non-zero actual only, and is "N/A" when there is none.  For actual
\* [10, 20, 0] and predicted [12, 18, 5]: MAE 3.0, RMSE 3.32, MAPE "15.00%".
C12_MetricsOverKeptPairs ==
    ev_out.done =>
        LET K == NumberPositions
            k == Cardinality(K)
            err == [i \in K |-> Abs(1000 * ev_in.actual[i][1] - ev_in.predicted[i])]
            sq == [i \in K |-> err[i] * err[i]]
            mae == ev_out.val.MAE \div 10
            rmse == ev_out.val.RMSE \div 10
            nonzero == {i \in K : ev_in.actual[i][1] # 0}
        IN  /\ k > 0 =>
                 /\ ev_out.val.MAE % 10 = 0
                 /\ Abs(10 * mae * k - SumOver(err, K)) <= 5 * k
                 /\ ev_out.val.RMSE % 10 = 0
                 /\ rmse > 0 =>
                      (2 * rmse - 1) * (2 * rmse - 1) * 25 * k <= SumOver(sq, K)
                 /\ SumOver(sq, K) <= (2 * rmse + 1) * (2 * rmse + 1) * 25 * k
            /\ (ev_out.val.MAPE = "N/A") <=> (nonzero = {})
            /\ ev_out.val.MAPE =
                 calculate_metrics(WithoutZeroActuals.actual,
                                   WithoutZeroActuals.predicted).MAPE
            /\ (/\ ev_in.actual = <<Some(10), Some(20), Some(0)>>
                /\ ev_in.predicted = <<12000, 18000, 5000>>)
               => ev_out.val = [MAE |-> 3000, RMSE |-> 3320, MAPE |-> "15.00%"]
            /\ (/\ ev_in.actual = <<Some(10), Nothing, Some(20)>>
                /\ ev_in.predicted = <<12000, 5000, 18000>>)
               => ev_out.val = [MAE |-> 2000, RMSE |-> 2000, MAPE |-> "15.00%"]

C12_Witness ==
    /\ ev_out.done
    /\ ev_in.actual = <<Some(10), Some(20), Some(0)>>
    /\ ev_in.predicted = <<12000, 18000, 5000>>
    /\ ev_out.val = [MAE |-> 3000, RMSE |-> 3320, MAPE |-> "15.00%"]

(***************************************************************************)
(* More properties of run_forecast, checked under Spec.                    *)
(***************************************************************************)
\* the stored documents of the requested product dated in month m of the
\* requested year
RecordsOfMonth(m) ==
    {i \in 1..Len(sales_data) :
        /\ sales_data[i].product_name = request.product
        /\ sales_data[i].date = [year |-> request.year, month |-> m]}

\* the months of the requested year that have a stored document
MonthsWithRecord == {m \in 1..12 : RecordsOfMonth(m) # {}}

\* a 12-entry list cut down to the months that have a stored document
OnlyRecorded(list) ==
    LET Has(m) == m \in MonthsWithRecord
        idx == SelectSeq([m \in 1..12 |-> m], Has)
    IN  [j \in 1..Len(idx) |-> list[idx[j]]]

StoredFor(coll, product, year) ==
    {i \in 1..Len(coll) : coll[i].product = product /\ coll[i].year = year}

\* C14: the result store never holds two records of one (product, year);
\* the step that completes a run leaves exactly one record for the run's
\* key, equal field for field to the run's ForecastResult, whether or not
\* an earlier result was stored for the key (it is overwritten, not
\* duplicated), and leaves the records of the other keys as they were.
C14_UpsertLastWins ==
    [][(pc # "done" /\ pc' = "done") =>
         LET mine == StoredFor(forecast_results', request.product, request.year)
             before == StoredFor(forecast_results, request.product, request.year)
         IN  /\ Cardinality(mine) = 1
             /\ \A i \in mine :
                  /\ \A f \in DOMAIN result[1] :
                       forecast_results'[i][f] = result[1][f]
                  /\ response'.result = result
             /\ Len(forecast_results') =
                  Len(forecast_results) + (IF before = {} THEN 1 ELSE 0)
             /\ \A i \in 1..Len(forecast_results) :
                  i \notin before => forecast_results'[i] = forecast_results[i]
             /\ \A i, j \in 1..Len(forecast_results') :
                  (/\ forecast_results'[i].product = forecast_results'[j].product
                   /\ forecast_results'[i].year = forecast_results'[j].year)
                  => i = j]_vars

C14_Witness ==
    /\ Done
    /\ request.product = "p1"
    /\ request.year = 2025
    /\ Len(forecast_results) = 1
    /\ "_id" \in DOMAIN forecast_results[1]
    /\ forecast_results[1].model_used = result[1].model_used
    /\ forecast_results[1].predicted = result[1].predicted
    /\ forecast_results[1].predicted # EarlierResult.predicted

(***************************************************************************)
(* Termination of run_forecast, checked under Spec.                        *)
(***************************************************************************)
\* the invocation has selected its primary model and has not ended
Running == pc \in {"primary", "fallback", "actuals", "persist"}

\* a bound on the steps the invocation can still take; 0 once it has ended
StepsLeft ==
    CASE pc = "primary" -> 10
      [] pc = "fallback" -> 3 + 2 * (Len(fallback_models) + 1 - fb_i)
      [] pc = "actuals" -> 2
      [] pc = "persist" -> 1
      [] OTHER -> 0

\* the guard of a step of the handler holds: the library has an outcome for
\* the model about to be tried, or the walk is past the end of the list
CanStep ==
    CASE pc = "primary" -> LibOutcomes(model_name) # {}
      [] pc = "fallback" ->
           \/ fb_i > Len(fallback_models)
           \/ /\ fb_i \in 1..Len(fallback_models)
              /\ LibOutcomes(FallbackAt(fallback_models, fb_i)) # {}
      [] OTHER -> TRUE

\* C16: an invocation that has selected its primary model moves along
\* Training -> Success | Failed -> TryFallback -> ..., a fallback being
\* tried only after a failure and the run going on to its result right after
\* a success; it makes at most 1 + (length of the fallback list) <= 3
\* attempts; and it ends, in exactly one of Done (one ForecastResult, from
\* the one attempt that succeeded) and AllFailed (no result): while it has
\* not ended the guard of its next step holds, and every step lowers a
\* bound on the steps left.
C16_Terminates ==
    /\ [](/\ Len(attempts) <= 1 + Len(get_fallback_list(category))
          /\ Len(attempts) <= 3
          /\ ~(Done /\ AllFailed)
          /\ Done =>
               /\ result # Nothing
               /\ attempts # << >>
               /\ attempts[Len(attempts)].ok
               /\ \A j \in 1..(Len(attempts) - 1) : ~attempts[j].ok
          /\ AllFailed =>
               /\ result = Nothing
               /\ \A j \in 1..Len(attempts) : ~attempts[j].ok
          /\ pc \in {"actuals", "persist"} => attempts[Len(attempts)].ok
          /\ pc = "fallback" => ~attempts[Len(attempts)].ok)
    /\ [][/\ pc = "primary" => pc' \in {"actuals", "fallback"}
          /\ pc = "fallback" => pc' \in {"fallback", "actuals", "error"}
          /\ pc = "actuals" => pc' = "persist"
          /\ pc = "persist" => pc' = "done"
          /\ pc \in {"done", "error"} => pc' = pc]_vars
    /\ [](Running => StepsLeft > 0 /\ CanStep)
    /\ [][Running => StepsLeft' < StepsLeft]_vars

C16_Witness ==
    /\ AllFailed
    /\ Len(attempts) = 3
    /\ result = Nothing
    /\ get_category_type(category) = "other"

\* C17: the 12 future feature rows run_forecast builds and hands to the
\* gradient-boosted and blended adapters are dated January to December of
\* target_year, one row per month in calendar order, whatever the training
\* history: also when its last month is not December of target_year - 1, and
\* when it is empty.
C17_FutureRowsInTargetYear ==
    (pc \notin {"idle", "load"} /\ df # << >>)
    => /\ Len(future_df) = 12
       /\ \A m \in 1..12 :
            future_df[m].date = [year |-> request.year, month |-> m]

(***************************************************************************)
(* Properties of the adapters, checked under SpecAdapters.                 *)
(***************************************************************************)
\* the rows of the series dated before the forecast year
TrainingRowCount ==
    Cardinality({i \in 1..Len(ad_in.df) :
                    ad_in.df[i].date.year < ad_in.forecast_year})

\* the leading rows of a series in which a lag or rolling feature of the
\* category's feature set is missing
IncompleteRows ==
    CASE get_category_type(ad_in.category) \in {"antibiotic", "chronic"} -> 12
      [] OTHER -> 6

IsInsufficientData(r) ==
    /\ ~r.ok
    /\ r.exc = "ValueError"
    /\ r.fits = << >>
    /\ \E n \in 0..MaxRows : \E need \in {12, 24} : r.msg = InsufficientData(n, need)

IsMissingFutureFeatures(r) ==
    /\ ~r.ok
    /\ r.exc = "ValueError"
    /\ r.msg = "future_features_df must be provided for XGBoost prediction"

\* C18 (as amended): train_and_predict_xgboost fails with an
\* insufficient-data error if and only if fewer than 12 training rows (rows
\* dated before target_year) are left once the rows with a missing lag or
\* rolling feature are dropped: the first 12 rows of the series for
\* antibiotic and chronic categories, the first 6 for gastro, acute and
\* other.  A series with 12 rows before target_year fails the row check for
\* every category type; 24 resp. 18 such rows pass it.  When no future
\* feature table is supplied the adapter always fails: with the
\* insufficient-data error when the row check fails, with the library's
\* error when the fit raises, and with the missing-future-features error
\* otherwise.
C18_XgboostRowCheck ==
    ad_out.done =>
        LET r == ad_out.xgboost
        IN  /\ IsInsufficientData(r) <=> (TrainingRowCount - IncompleteRows < 12)
            /\ TrainingRowCount = 12 => IsInsufficientData(r)
            /\ ad_in.future_features_df = Nothing =>
                 /\ ~r.ok
                 /\ IsMissingFutureFeatures(r) <=>
                      (~IsInsufficientData(r) /\ ~ad_in.xgboost.raises)
            /\ IsMissingFutureFeatures(r) => ad_in.future_features_df = Nothing

C18_Witness ==
    /\ ad_out.done
    /\ TrainingRowCount = 18
    /\ get_category_type(ad_in.category) = "gastro"
    /\ ad_in.future_features_df = Nothing
    /\ IsMissingFutureFeatures(ad_out.xgboost)

\* C18 as stated: the insufficient-data error comes if and only if the series
\* has fewer than 12 rows dated before target_year, and the
\* missing-future-features error whenever no future feature table is
\* supplied.
C18_Original ==
    ad_out.done =>
        /\ IsInsufficientData(ad_out.xgboost) <=> (TrainingRowCount < 12)
        /\ ad_in.future_features_df = Nothing =>
             IsMissingFutureFeatures(ad_out.xgboost)

\* C19: train_and_predict_prophet fails with an insufficient-data error with
\* 11 training rows and passes the row check with 12; train_and_predict_sarimax
\* fails with it with 23 and passes with 24; only rows dated before
\* target_year count, and the error comes before any fit is attempted.
C19_RowThresholds ==
    ad_out.done =>
        /\ IsInsufficientData(ad_out.prophet) <=> (TrainingRowCount < 12)
        /\ IsInsufficientData(ad_out.sarimax) <=> (TrainingRowCount < 24)
        /\ TrainingRowCount < 12 => ad_out.prophet.fits = << >>
        /\ TrainingRowCount < 24 => ad_out.sarimax.fits = << >>
        /\ TrainingRowCount >= 12 =>
             /\ ad_out.prophet.fits # << >>
             /\ ad_out.prophet.ok <=> ~ad_in.prophet.raises
        /\ TrainingRowCount >= 24 => ad_out.sarimax.fits # << >>

C19_Witness ==
    /\ ad_out.done
    /\ Len(ad_in.df) = MaxRows
    /\ TrainingRowCount = 12
    /\ ad_out.prophet.ok
    /\ IsInsufficientData(ad_out.sarimax)

\* C20: train_and_predict_hybrid returns predictions only when both the
\* trend-seasonal and the gradient-boosted sub-model succeeded; when either
\* fails it fails, with that sub-model's error and no values.  On success
\* each of the 12 values is max(0, w * trend_seasonal[i] + (1 - w) *
\* gradient_boosted[i]) with w = 0.5.
C20_HybridBlend ==
    ad_out.done =>
        LET h == ad_out.hybrid
            p == ad_out.prophet
            x == ad_out.xgboost
        IN  /\ h.ok <=> (p.ok /\ x.ok)
            /\ ~h.ok => h.val = << >>
            /\ ~p.ok => h.msg = p.msg
            /\ (p.ok /\ ~x.ok) => h.msg = x.msg
            /\ h.ok =>
                 /\ Len(h.val) = 12
                 /\ \A i \in 1..12 :
                      2 * h.val[i] = Max(0, p.val[i] + x.val[i])

C20_Witness ==
    /\ ad_out.done
    /\ ad_out.hybrid.ok
    /\ ad_in.prophet.shape # ad_in.xgboost.shape
    /\ ad_out.hybrid.val[1] > 0
    /\ ad_out.hybrid.val[1] < ad_out.prophet.val[1] + ad_out.xgboost.val[1]

(***************************************************************************)
(* C21.  One call of the SARIMAX adapter fits at most twice.  The first    *)
(* fit has order (1,1,1)(1,1,1,12).  A second fit is made exactly when the *)
(* first raises, and it has order (1,0,0)(1,0,0,12) on the same training   *)
(* rows.  When the second raises too, the call fails with a RuntimeError   *)
(* whose message holds the messages of both failures.  Checked under       *)
(* SpecAdapters.                                                           *)
(***************************************************************************)
C21_SarimaxRetry ==
    ad_out.done =>
      LET r == ad_out.sarimax
          o == ad_in.sarimax
          reached == TrainingRowCount >= 24
          e == LibError("sarimax (1,1,1)(1,1,1,12)")
          e2 == LibError("sarimax (1,0,0)(1,0,0,12)")
      IN  /\ Len(r.fits) <= 2
          /\ ~reached => r.fits = << >>
          /\ reached =>
                /\ Len(r.fits) >= 1
                /\ r.fits[1].lib = "sarimax (1,1,1)(1,1,1,12)"
                /\ (Len(r.fits) = 2) <=> o.fit1_raises
                /\ Len(r.fits) = 2 =>
                      /\ r.fits[2].lib = "sarimax (1,0,0)(1,0,0,12)"
                      /\ r.fits[2].train = r.fits[1].train
                /\ (o.fit1_raises /\ o.fit2_raises) =>
                      /\ ~r.ok
                      /\ r.exc = "RuntimeError"
                      /\ r.msg = "SARIMAX training failed: " \o e \o " | " \o e2
                /\ (o.fit1_raises /\ ~o.fit2_raises /\ ~o.forecast_raises) => r.ok

\* both fits were made and both raised
C21_Witness ==
    /\ ad_out.done
    /\ Len(ad_out.sarimax.fits) = 2
    /\ ~ad_out.sarimax.ok
    /\ ad_in.sarimax.fit2_raises

(***************************************************************************)
(* Properties of the feature builders, checked under SpecFeatures.         *)
(***************************************************************************)
\* units_sold of the document of fe_in.df dated d
UnitsOn(d) ==
    LET j == CHOOSE j \in 1..Len(fe_in.df) : fe_in.df[j].date = d
    IN  fe_in.df[j].units_sold

\* row number r of the feature table, counted from 0 as the table's index is
FeatRow(r) == fe_out.feat_df[r + 1]

(***************************************************************************)
(* C22.  In the table build_features returns, the rows being in date       *)
(* order and numbered from 0, lag_k of row i is units_sold of row i - k    *)
(* when i >= k and is missing when i < k, for k in {1, 2, 3, 6, 12}; in    *)
(* the table of a 15-row series lag_12 is defined at rows 12, 13 and 14    *)
(* and at no other.                                                        *)
(***************************************************************************)
C22_LagColumns ==
    fe_out.built =>
      LET n == Len(fe_out.feat_df)
      IN  /\ n = Len(fe_in.df)
          /\ \A i \in 0..(n - 1) :
                /\ i > 0 => MonthNo(FeatRow(i - 1).date) < MonthNo(FeatRow(i).date)
                /\ \A k \in {1, 2, 3, 6, 12} :
                      /\ i >= k =>
                            FeatRow(i).lag[k] = <<UnitsOn(FeatRow(i - k).date), 1>>
                      /\ i < k => FeatRow(i).lag[k] = NaN
                      /\ (FeatRow(i).lag[k] = NaN)
                            <=> FeatureIsNaN("lag_" \o ToString(k), i + 1)
          /\ n = 15 =>
                {i \in 0..14 : FeatRow(i).lag[12] # NaN} = {12, 13, 14}

\* the table of 15 documents that were not stored in date order
C22_Witness ==
    /\ fe_out.built
    /\ Len(fe_out.feat_df) = 15
    /\ FeatRow(12).lag[12] # NaN
    /\ FeatRow(12).lag[12] # FeatRow(12).lag[1]
    /\ fe_in.df[1].date # FeatRow(0).date

\* units_sold of the rows i - w .. i - 1 of the feature table that exist
PriorUnits(i, w) ==
    LET m == IF i < w THEN i ELSE w
    IN  [j \in 1..m |-> <<UnitsOn(FeatRow(i - m + j - 1).date), 1>>]

(***************************************************************************)
(* C23.  In the table build_features returns, rolling_mean_w and           *)
(* rolling_std_w of row i (w in {3, 6, 12}) are computed from rows i - w   *)
(* to i - 1 only; where fewer than w earlier rows exist, rolling_mean_w is *)
(* the mean of the earlier rows there are and rolling_std_w is 0, so that  *)
(* no entry of these columns is missing.                                   *)
(***************************************************************************)
C23_RollingFallback ==
    fe_out.built =>
      \A i \in 0..(Len(fe_out.feat_df) - 1) : \A w \in {3, 6, 12} :
        /\ FeatRow(i).rolling_mean[w] # NaN
        /\ FeatRow(i).rolling_std[w] # NaN
        /\ i >= w =>
              /\ FeatRow(i).rolling_mean[w] = Mean(PriorUnits(i, w))
              /\ FeatRow(i).rolling_std[w] = SampleVariance(PriorUnits(i, w))
        /\ (0 < i /\ i < w) =>
              /\ FeatRow(i).rolling_mean[w] = Mean(PriorUnits(i, w))
              /\ FeatRow(i).rolling_std[w] = <<0, 1>>

\* future row number r, counted from 0 as the loop counts
FutureRowAt(r) == fe_out.rows[r + 1]

\* the seed followed by rolling_mean_3 of the future rows 0 .. r - 1
BufferBefore(r) ==
    [j \in 1..Len(fe_out.last_known_values) |->
        <<fe_out.last_known_values[j], 1>>]
    \o [j \in 1..r |-> FutureRowAt(j - 1).rolling_mean[3]]

(***************************************************************************)
(* C24.  In build_future_features, when future row i (from 0) is made the  *)
(* history buffer is last_known_values followed by rolling_mean_3 of the   *)
(* future rows 0 .. i - 1, so it has len(last_known_values) + i entries;   *)
(* lag_k of row i is the k-th most recent entry of that buffer, or missing *)
(* when it has fewer than k; hence lag_1 of row i + 1 is rolling_mean_3    *)
(* of row i.  Nothing else enters the buffer.  The table the loop ends     *)
(* with is the one build_future_features returns.                          *)
(***************************************************************************)
C24_HistoryBuffer ==
    fe_out.started =>
      LET i == Len(fe_out.rows)
      IN  /\ fe_out.history = BufferBefore(i)
          /\ Len(fe_out.history) = Len(fe_out.last_known_values) + i
          /\ \A r \in 0..(i - 1) : \A k \in {1, 2, 3, 6, 12} :
                LET buffer == BufferBefore(r)
                IN  FutureRowAt(r).lag[k] =
                      IF Len(buffer) >= k THEN buffer[Len(buffer) - k + 1]
                      ELSE NaN
          /\ \A r \in 0..(i - 2) :
                FutureRowAt(r + 1).lag[1] = FutureRowAt(r).rolling_mean[3]
          /\ i = fe_out.n_months =>
                fe_out.rows = build_future_features(fe_out.last_date,
                                  fe_out.n_months, fe_out.last_known_values)

\* twelve rows made from a seed of twelve values: lag_6 of row 11 is a
\* placeholder, lag_12 a seed value
C24_Witness ==
    /\ fe_out.started
    /\ Len(fe_out.rows) = 12
    /\ Len(fe_out.last_known_values) = 12
    /\ FutureRowAt(11).lag[6] = FutureRowAt(5).rolling_mean[3]
    /\ FutureRowAt(11).lag[12] = <<fe_out.last_known_values[12], 1>>
    /\ FutureRowAt(1).lag[1] # FutureRowAt(0).lag[1]

(***************************************************************************)
(* Further properties of run_forecast, checked under Spec.                 *)
(***************************************************************************)
MonthAbbreviations ==
    <<"Jan", "Feb", "Mar", "Apr", "May", "Jun", "Jul", "Aug", "Sep", "Oct",
      "Nov", "Dec">>

(***************************************************************************)
(* C29.  The twelve month labels of a ForecastResult name January to       *)
(* December of the year the request asked for, whatever that year is.      *)
(***************************************************************************)
C29_LabelsOfTargetYear ==
    result # Nothing =>
      /\ Len(result[1].months) = 12
      /\ \A m \in 1..12 :
            result[1].months[m] =
              MonthAbbreviations[m] \o "-" \o ToString(request.year)

(***************************************************************************)
(* C30.  trend_index runs on from the training rows into the future rows:  *)
(* the n rows before the forecast year are the rows 0 .. n - 1 of the      *)
(* feature table, each with trend_index equal to its row number, and       *)
(* future row i (from 0) has trend_index n + i, for every n.               *)
(***************************************************************************)
C30_TrendContinuous ==
    (pc \notin {"idle", "load"} /\ df # << >>) =>
      LET feat_df == build_features(df)
          n == TrainingCount
      IN  /\ \A j \in 1..n :
                /\ feat_df[j].date.year < request.year
                /\ feat_df[j].trend_index = j - 1
          /\ \A i \in 0..(Len(future_df) - 1) :
                future_df[i + 1].trend_index = n + i

(***************************************************************************)
(* C27.  One run_forecast invocation trains no model twice: whether the    *)
(* model is chosen by the category or named in the request, the primary    *)
(* model is not in the fallback list walked after it fails, and that list  *)
(* names no model twice.                                                   *)
(***************************************************************************)
C27_NoModelTwice ==
    /\ \A j, k \in 1..Len(attempts) :
          attempts[j].model = attempts[k].model => j = k
    /\ pc = "fallback" =>
          /\ \A j \in 1..Len(fallback_models) :
                fallback_models[j] # attempts[1].model
          /\ \A j, k \in 1..Len(fallback_models) :
                fallback_models[j] = fallback_models[k] => j = k

(***************************************************************************)
(* C28.  A run_forecast invocation that fails (not connected, invalid      *)
(* request, no data, or every model failed) leaves the forecast_results    *)
(* collection as it was: the step that fails writes nothing, no step       *)
(* before it writes, and a failed invocation stays failed; the only step   *)
(* that changes the collection is the one that completes an invocation     *)
(* whose last attempt succeeded.  A record stored earlier under the key is *)
(* therefore still there, with its content.                                *)
(***************************************************************************)
C28_FailureLeavesStore ==
    /\ [][pc' = "error" => forecast_results' = forecast_results]_vars
    /\ [][forecast_results' # forecast_results =>
            /\ pc = "persist"
            /\ pc' = "done"
            /\ result # Nothing
            /\ attempts # << >>
            /\ attempts[Len(attempts)].ok
            /\ response'.status = 200]_vars
    /\ [][pc = "error" => pc' = "error"]_vars
    /\ [](pc = "error" => result = Nothing /\ response.result = Nothing)

\* every model failed for the key that has a stored result
C28_Witness ==
    /\ pc = "error"
    /\ Len(attempts) = 3
    /\ request.product = EarlierResult.product
    /\ request.year = EarlierResult.year
    /\ forecast_results = <<EarlierResult>>

(***************************************************************************)
(* C26.  Whatever files were uploaded, the same one twice included, the    *)
(* series run_forecast loads for a product has at most one record for a    *)
(* calendar month, and so has the product's part of sales_data.  Checked   *)
(* under SpecUpload.                                                       *)
(***************************************************************************)
C26_OnePointPerMonth ==
    /\ \A i, j \in 1..Len(df) : df[i].date = df[j].date => i = j
    /\ \A i, j \in 1..Len(sales_data) :
          (/\ sales_data[i].product_name = sales_data[j].product_name
           /\ sales_data[i].date = sales_data[j].date) => i = j

(***************************************************************************)
(* Two invocations, checked under SpecConcurrent.                          *)
(***************************************************************************)
\* the locals of both invocations
Invocations == {Context, other}

\* what an invocation with locals c returns and stores when nothing else
\* runs: the ForecastResult made from the stored series of its product, its
\* request and what its own model attempts returned
ResultAlone(c) ==
    LET docs == FindSales(sales_data, c.request.product)
        cat == IF IsFalsy(c.request.category) THEN ModeCategory(docs)
               ELSE c.request.category
        last == c.attempts[Len(c.attempts)]
        actual == ActualValues(docs, c.request.year)
        metrics_dict == calculate_metrics(actual, last.returned)
    IN  [product |-> c.request.product,
         category |-> cat,
         model_used |-> IF last.role = "Primary" THEN last.model
                        ELSE FallbackLabel(last.model),
         months |-> MONTH_LABELS,
         actual |-> actual,
         predicted |-> [i \in 1..Len(last.returned) |-> Round2(last.returned[i])],
         metrics |-> IF metrics_dict.MAE # 0
                        \/ \E m \in 1..12 : actual[m] # Nothing
                     THEN Some(metrics_dict) ELSE Nothing,
         features_used |-> build_features_cols(cat)]

\* the models an invocation with locals c tries when nothing else runs, in
\* order, as far as it has come
AttemptsAlone(c) ==
    LET docs == FindSales(sales_data, c.request.product)
        cat == IF IsFalsy(c.request.category) THEN ModeCategory(docs)
               ELSE c.request.category
    IN  <<select_model(cat, c.request.model).val>> \o get_fallback_list(cat)

(***************************************************************************)
(* C25.  Two run_forecast invocations for different products, interleaved  *)
(* in any way at their suspension points, do not affect each other: each   *)
(* loads its own product's series, tries the models it would try alone on  *)
(* training rows of its own product, returns the ForecastResult it would   *)
(* return alone, and leaves exactly that record under its own key; a step  *)
(* of one changes no stored record of another key and no local of the      *)
(* other.                                                                  *)
(***************************************************************************)
C25_IndependentInvocations ==
    /\ [](\A c \in Invocations :
            /\ c.pc \notin {"idle", "load", "error"} =>
                  /\ c.df = FindSales(sales_data, c.request.product)
                  /\ \A j \in 1..Len(c.attempts) :
                        /\ c.attempts[j].model = AttemptsAlone(c)[j]
                        /\ \A f \in 1..Len(c.attempts[j].fits) :
                              c.attempts[j].fits[f].train
                                \subseteq {c.df[i].date : i \in 1..Len(c.df)}
            /\ c.pc \in {"persist", "done"} => c.result = Some(ResultAlone(c))
            /\ c.pc = "done" =>
                  /\ c.response.result = c.result
                  /\ \E i \in 1..Len(forecast_results) :
                        /\ StoredFor(forecast_results, c.request.product,
                                     c.request.year) = {i}
                        /\ \A f \in DOMAIN c.result[1] :
                              forecast_results[i][f] = c.result[1][f])
    /\ [][/\ \A i \in 1..Len(forecast_results) :
               i \notin StoredFor(forecast_results, request.product, request.year)
               => forecast_results'[i] = forecast_results[i]
          /\ other' \in {other, Context}]_vars

\* both invocations are suspended before their upsert, each with the result
\* it has built
C25_Witness ==
    /\ pc = "persist"
    /\ other.pc = "persist"
    /\ request.product = "p1"
    /\ other.request.product = "p2"
    /\ result # Nothing
    /\ other.result # Nothing

=============================================================================
